---- MODULE Spec2Model ----
(***************************************************************************)
(* Model of the Weaviate plugin: the parameter-normalising tool adapters   *)
(* (tools/*.py), the client wrapper (utils/client.py), the validators and  *)
(* helpers (utils/*.py) and the credential validator (provider/).          *)
(*                                                                         *)
(* Python values are tagged records [t |-> tag, v |-> value]; strings are  *)
(* TLA+ strings handled character by character (Len, SubSeq, \o).          *)
(* The vector database and the LLM are the environment: every SDK call may *)
(* succeed or raise, chosen nondeterministically.                          *)
(***************************************************************************)
EXTENDS Integers, Sequences, FiniteSets, TLC

VARIABLES
    pc,          \* position of the current invocation
    tool,        \* the tool (or the provider) being invoked
    params,      \* the parameter mapping of the invocation
    args,        \* the normalised arguments computed before the client is built
    msgs,        \* messages yielded to the host by this invocation
    calls,       \* SDK calls that reached the database during this invocation
    escaped,     \* the exception that left the entry point ("" when none)
    wclient,     \* WeaviateClient._client: "none", "ready" or "notready"
    opened,      \* connections opened by this invocation
    closed,      \* connections on which close() was called
    lastres,     \* what the last client-wrapper method did: returned / raised
    env,         \* the environment's choices for this invocation
    objects,     \* identifiers of the objects stored in the collection
    collections  \* names of the collections that exist in the database

vars == <<pc, tool, params, args, msgs, calls, escaped, wclient, opened, closed,
          lastres, env, objects, collections>>

\* two invocations whose steps interleave, each with the WeaviateClient it built
VARIABLES
    ipc,         \* position of each invocation
    clients,     \* WeaviateClient._client of each invocation: a connection, 0 for None
    conns,       \* the connections the SDK has created: "open" or "closed"
    running      \* the invocation that took the latest step (0 before the first)

ivars == <<ipc, clients, conns, running>>

-----------------------------------------------------------------------------
(* Python values *)

PAbsent == [t |-> "absent"]
PNone == [t |-> "none"]
PStr(s) == [t |-> "str", v |-> s]
PInt(n) == [t |-> "int", v |-> n]
PBool(b) == [t |-> "bool", v |-> b]
PList(xs) == [t |-> "list", v |-> xs]
PDict(d) == [t |-> "dict", v |-> d]

EmptyDict == [k \in {} |-> 0]

\* dict.get(key) with no default: an absent key reads as None
Get(x) == IF x.t = "absent" THEN PNone ELSE x

\* dict.get(key, default)
GetDefault(x, d) == IF x.t = "absent" THEN d ELSE x

\* Python truthiness
Truthy(x) ==
    CASE x.t \in {"absent", "none"} -> FALSE
      [] x.t = "str" -> Len(x.v) > 0
      [] x.t = "int" -> x.v # 0
      [] x.t = "bool" -> x.v
      [] x.t = "list" -> Len(x.v) > 0
      [] x.t = "dict" -> DOMAIN x.v # {}
      [] OTHER -> TRUE

\* (x or '')
OrEmpty(x) == IF Truthy(x) THEN x ELSE PStr("")

-----------------------------------------------------------------------------
(* Strings, character by character *)

Char(s, i) == SubSeq(s, i, i)

IsSpace(c) == c \in {" ", "\n", "\t"}

RECURSIVE LStrip(_)
LStrip(s) ==
    IF Len(s) = 0 THEN s
    ELSE IF IsSpace(Char(s, 1)) THEN LStrip(SubSeq(s, 2, Len(s))) ELSE s

RECURSIVE RStrip(_)
RStrip(s) ==
    IF Len(s) = 0 THEN s
    ELSE IF IsSpace(Char(s, Len(s))) THEN RStrip(SubSeq(s, 1, Len(s) - 1)) ELSE s

\* str.strip()
Strip(s) == RStrip(LStrip(s))

\* str.startswith(prefix)
StartsWith(s, p) == Len(s) >= Len(p) /\ SubSeq(s, 1, Len(p)) = p

\* index of the first occurrence of the character c in s, 0 when there is none
RECURSIVE FindChar(_, _, _)
FindChar(s, c, i) ==
    IF i > Len(s) THEN 0
    ELSE IF Char(s, i) = c THEN i ELSE FindChar(s, c, i + 1)

\* str.split(sep) for a one-character separator
RECURSIVE Split(_, _)
Split(s, sep) ==
    LET At(i) == IF i = 0 THEN <<s>>
                 ELSE <<SubSeq(s, 1, i - 1)>> \o Split(SubSeq(s, i + 1, Len(s)), sep)
    IN  At(FindChar(s, sep, 1))

\* [p.strip() for p in s.split(",") if p.strip()]
RECURSIVE StripNonEmpty(_)
StripNonEmpty(parts) ==
    IF Len(parts) = 0 THEN <<>>
    ELSE LET h == Strip(Head(parts)) IN
         (IF Len(h) > 0 THEN <<h>> ELSE <<>>) \o StripNonEmpty(Tail(parts))

SplitCsv(s) == StripNonEmpty(Split(s, ","))

Digits == <<"0", "1", "2", "3", "4", "5", "6", "7", "8", "9">>

IsDigit(c) == \E d \in 1..10 : Digits[d] = c

DigitVal(c) == (CHOOSE d \in 1..10 : Digits[d] = c) - 1

RECURSIVE AllDigits(_)
AllDigits(s) ==
    IF Len(s) = 0 THEN TRUE
    ELSE IsDigit(Char(s, 1)) /\ AllDigits(SubSeq(s, 2, Len(s)))

RECURSIVE DigitsVal(_)
DigitsVal(s) ==
    IF Len(s) = 0 THEN 0
    ELSE 10 * DigitsVal(SubSeq(s, 1, Len(s) - 1)) + DigitVal(Char(s, Len(s)))

\* the text of a decimal integer literal, as int(str) reads it
IntLiteral(s) ==
    LET Read(b, body) ==
            IF Len(body) > 0 /\ AllDigits(body)
            THEN [ok |-> TRUE, v |-> IF StartsWith(b, "-") THEN 0 - DigitsVal(body)
                                     ELSE DigitsVal(body)]
            ELSE [ok |-> FALSE, v |-> 0]
        Signed(b) == Read(b, IF StartsWith(b, "-") \/ StartsWith(b, "+")
                             THEN SubSeq(b, 2, Len(b)) ELSE b)
    IN  Signed(Strip(s))

\* int(x): [ok, v] on success, [ok |-> FALSE, exc] for TypeError / ValueError
PyInt(x) ==
    LET Literal(r) == IF r.ok THEN [ok |-> TRUE, v |-> r.v, exc |-> ""]
                      ELSE [ok |-> FALSE, v |-> 0, exc |-> "ValueError"]
    IN  CASE x.t = "int" -> [ok |-> TRUE, v |-> x.v, exc |-> ""]
          [] x.t = "bool" -> [ok |-> TRUE, v |-> IF x.v THEN 1 ELSE 0, exc |-> ""]
          [] x.t = "str" -> Literal(IntLiteral(x.v))
          [] OTHER -> [ok |-> FALSE, v |-> 0, exc |-> "TypeError"]

\* the text of a decimal number, as float(str) reads it, in tenths
FloatLiteral(s) ==
    LET Read(whole, frac) ==
            IF Len(whole) + Len(frac) > 0 /\ AllDigits(whole) /\ AllDigits(frac)
               /\ Len(frac) <= 1
            THEN [ok |-> TRUE, v |-> 10 * DigitsVal(whole) + DigitsVal(frac)]
            ELSE [ok |-> FALSE, v |-> 0]
        Parts(b, dot) == Read(IF dot = 0 THEN b ELSE SubSeq(b, 1, dot - 1),
                              IF dot = 0 THEN "" ELSE SubSeq(b, dot + 1, Len(b)))
        Dotted(b) == Parts(b, FindChar(b, ".", 1))
    IN  Dotted(Strip(s))

\* float(x), in tenths
PyFloat(x) ==
    LET Literal(r) == IF r.ok THEN [ok |-> TRUE, v |-> r.v, exc |-> ""]
                      ELSE [ok |-> FALSE, v |-> 0, exc |-> "ValueError"]
    IN  CASE x.t = "int" -> [ok |-> TRUE, v |-> 10 * x.v, exc |-> ""]
          [] x.t = "float" -> [ok |-> TRUE, v |-> x.v, exc |-> ""]
          [] x.t = "str" -> Literal(FloatLiteral(x.v))
          [] OTHER -> [ok |-> FALSE, v |-> 0, exc |-> "TypeError"]

-----------------------------------------------------------------------------
(* JSON texts of the model and json.loads *)

ObjWithId == "{\"id\":\"u1\",\"properties\":{\"t\":\"x\"}}"
ObjRaw == "{\"t\":\"x\"}"
ObjVector == "{\"vector\":[1,2]}"
FilterSimple == "{\"a\":1}"
FilterLeaf == "{\"path\":[\"p\"],\"operator\":\"Equal\",\"valueInt\":1}"
FilterAnd == "{\"operator\":\"And\",\"operands\":[]}"
FilterAndBare == "{\"operator\":\"And\"}"
FilterListOp == "{\"operator\":[\"And\"],\"path\":[\"p\"]}"
PropText == "{\"name\":\"title\",\"data_type\":\"text\"}"
PropNoType == "{\"name\":\"title\"}"

\* the JSON documents json.loads reads without an array around them
JsonScalar(s) ==
    LET Number(r) == IF r.ok /\ Strip(s) = s THEN [ok |-> TRUE, v |-> PInt(r.v)]
                     ELSE [ok |-> FALSE, v |-> PNone]
    IN  CASE s = "null" -> [ok |-> TRUE, v |-> PNone]
          [] s = "{}" -> [ok |-> TRUE, v |-> PDict(EmptyDict)]
          [] s = "\"a\"" -> [ok |-> TRUE, v |-> PStr("a")]
          [] s = "\"b\"" -> [ok |-> TRUE, v |-> PStr("b")]
          [] s = "\"c\"" -> [ok |-> TRUE, v |-> PStr("c")]
          [] s = ObjWithId ->
                [ok |-> TRUE, v |-> PDict([id |-> PStr("u1"),
                                           properties |-> PDict([t |-> PStr("x")])])]
          [] s = ObjRaw -> [ok |-> TRUE, v |-> PDict([t |-> PStr("x")])]
          [] s = ObjVector ->
                [ok |-> TRUE, v |-> PDict([vector |-> PList(<<PInt(1), PInt(2)>>)])]
          [] s = FilterSimple -> [ok |-> TRUE, v |-> PDict([a |-> PInt(1)])]
          [] s = FilterLeaf ->
                [ok |-> TRUE, v |-> PDict([path |-> PList(<<PStr("p")>>),
                                           operator |-> PStr("Equal"),
                                           valueInt |-> PInt(1)])]
          [] s = FilterAnd ->
                [ok |-> TRUE, v |-> PDict([operator |-> PStr("And"),
                                           operands |-> PList(<<>>)])]
          [] s = FilterAndBare -> [ok |-> TRUE, v |-> PDict([operator |-> PStr("And")])]
          [] s = FilterListOp ->
                [ok |-> TRUE, v |-> PDict([operator |-> PList(<<PStr("And")>>),
                                           path |-> PList(<<PStr("p")>>)])]
          [] s = PropText ->
                [ok |-> TRUE, v |-> PDict([name |-> PStr("title"),
                                           data_type |-> PStr("text")])]
          [] s = PropNoType -> [ok |-> TRUE, v |-> PDict([name |-> PStr("title")])]
          [] OTHER -> Number(IntLiteral(s))

\* nesting depth of brackets and braces after each character
Depth(c, d) ==
    IF c \in {"[", "{"} THEN d + 1 ELSE IF c \in {"]", "}"} THEN d - 1 ELSE d

\* index of the first comma of s at nesting depth 0, 0 when there is none
RECURSIVE TopComma(_, _, _)
TopComma(s, i, d) ==
    IF i > Len(s) THEN 0
    ELSE IF Char(s, i) = "," /\ d = 0 THEN i
    ELSE TopComma(s, i + 1, Depth(Char(s, i), d))

RECURSIVE SplitTop(_)
SplitTop(s) ==
    LET At(i) == IF i = 0 THEN <<s>>
                 ELSE <<SubSeq(s, 1, i - 1)>> \o SplitTop(SubSeq(s, i + 1, Len(s)))
    IN  At(TopComma(s, 1, 0))

RECURSIVE JsonElems(_)
JsonElems(parts) ==
    LET Cons(h, r) == IF h.ok /\ r.ok THEN [ok |-> TRUE, v |-> <<h.v>> \o r.v]
                      ELSE [ok |-> FALSE, v |-> <<>>]
    IN  IF Len(parts) = 0 THEN [ok |-> TRUE, v |-> <<>>]
        ELSE Cons(JsonScalar(Strip(Head(parts))), JsonElems(Tail(parts)))

\* json.loads(s): [ok, v]; ok = FALSE stands for json.JSONDecodeError
json_loads(s) ==
    LET Array(r) == IF r.ok THEN [ok |-> TRUE, v |-> PList(r.v)]
                    ELSE [ok |-> FALSE, v |-> PNone]
        Elements(inner) == IF Len(inner) = 0 THEN [ok |-> TRUE, v |-> PList(<<>>)]
                           ELSE Array(JsonElems(SplitTop(inner)))
        Document(b) ==
            IF Len(b) >= 2 /\ Char(b, 1) = "[" /\ Char(b, Len(b)) = "]"
            THEN Elements(Strip(SubSeq(b, 2, Len(b) - 1)))
            ELSE JsonScalar(b)
    IN  Document(Strip(s))

-----------------------------------------------------------------------------
(* utils/helpers.py *)

\* the mutant of safe_json_parse: a text that does not parse is read as {}
safe_json_parse_lenient(value, default) ==
    LET Loaded(r) == IF r.ok THEN r.v ELSE PDict(EmptyDict)
        Text(s) == IF Len(s) = 0 THEN default ELSE Loaded(json_loads(s))
    IN  IF value.t \in {"dict", "list"} THEN value
        ELSE IF value.t = "str" THEN Text(Strip(value.v))
        ELSE default

\* safe_json_parse: the default for a blank text and for a text json.loads rejects
safe_json_parse(value, default) ==
    LET Loaded(r) == IF r.ok THEN r.v ELSE default
        Text(s) == IF Len(s) = 0 THEN default ELSE Loaded(json_loads(s))
    IN  IF value.t \in {"dict", "list"} THEN value
        ELSE IF value.t = "str" THEN Text(Strip(value.v))
        ELSE default

\* str(v) for the values a property list can hold
PyStr(x) == IF x.t = "str" THEN x.v ELSE IF x.t = "none" THEN "None" ELSE "?"

RECURSIVE StrStripNonEmpty(_)
StrStripNonEmpty(xs) ==
    IF Len(xs) = 0 THEN <<>>
    ELSE LET h == Strip(PyStr(Head(xs))) IN
         (IF Len(h) > 0 THEN <<h>> ELSE <<>>) \o StrStripNonEmpty(Tail(xs))

csv_or_list_to_list(value) ==
    LET Text(s) == IF Len(s) = 0 THEN PNone ELSE PList(SplitCsv(s)) IN
    IF value.t = "none" THEN PNone
    ELSE IF value.t = "list" THEN PList(StrStripNonEmpty(value.v))
    ELSE Text(Strip(PyStr(value)))

create_error_response(error_message) ==
    [kind |-> "json", success |-> FALSE, text |-> error_message, data |-> PNone]

create_success_response(data, message) ==
    [kind |-> "json", success |-> TRUE, text |-> message, data |-> data]

\* Tool.create_text_message of the plugin host
create_text_message(text) ==
    [kind |-> "text", success |-> FALSE, text |-> text, data |-> PNone]

-----------------------------------------------------------------------------
(* utils/validators.py *)

DictHas(d, key) == key \in DOMAIN d.v

IsAlnum(c) ==
    \/ IsDigit(c)
    \/ c \in {"a", "b", "c", "d", "e", "f", "g", "h", "i", "j", "k", "l", "m",
              "n", "o", "p", "q", "r", "s", "t", "u", "v", "w", "x", "y", "z"}
    \/ c \in {"A", "B", "C", "D", "E", "F", "G", "H", "I", "J", "K", "L", "M",
              "N", "O", "P", "Q", "R", "S", "T", "U", "V", "W", "X", "Y", "Z"}

IsHostChar(c) == IsAlnum(c) \/ c \in {".", "-"}

\* length of the longest prefix of s, from index i, made of host characters
RECURSIVE HostEnd(_, _)
HostEnd(s, i) ==
    IF i <= Len(s) /\ IsHostChar(Char(s, i)) THEN HostEnd(s, i + 1) ELSE i

RECURSIVE DigitsEnd(_, _)
DigitsEnd(s, i) ==
    IF i <= Len(s) /\ IsDigit(Char(s, i)) THEN DigitsEnd(s, i + 1) ELSE i

\* what may follow the host: (:\d+)?(/.*)?$
UrlTail(s, i) ==
    LET AtEnd(j) == j > Len(s) \/ (j = Len(s) /\ Char(s, j) = "\n")
        Path(j) == /\ j <= Len(s)
                   /\ Char(s, j) = "/"
                   /\ \A k \in (j + 1)..(Len(s) - 1) : Char(s, k) # "\n"
        After(j) == AtEnd(j) \/ Path(j)
    IN  \/ After(i)
        \/ /\ i <= Len(s)
           /\ Char(s, i) = ":"
           /\ DigitsEnd(s, i + 1) > i + 1
           /\ After(DigitsEnd(s, i + 1))

\* re.match(r'^https?://[a-zA-Z0-9.-]+(:\d+)?(/.*)?$', url); the greedy host
\* class shares no character with ':' or '/', so no backtracking is needed
UrlMatches(s) ==
    LET start == IF StartsWith(s, "https://") THEN 9
                 ELSE IF StartsWith(s, "http://") THEN 8 ELSE 0
    IN  /\ start > 0
        /\ HostEnd(s, start) > start
        /\ UrlTail(s, HostEnd(s, start))

\* validate_weaviate_url: [ok, v, exc]; re.match raises TypeError on a non-string
validate_weaviate_url(url) ==
    IF ~Truthy(url) THEN [ok |-> TRUE, v |-> FALSE, exc |-> ""]
    ELSE IF url.t # "str" THEN [ok |-> FALSE, v |-> FALSE, exc |-> "TypeError"]
    ELSE [ok |-> TRUE, v |-> UrlMatches(url.v), exc |-> ""]

validate_api_key(api_key) ==
    IF ~Truthy(api_key) THEN [ok |-> TRUE, v |-> FALSE, exc |-> ""]
    ELSE IF api_key.t # "str"
         THEN [ok |-> FALSE, v |-> FALSE, exc |-> "AttributeError"]
         ELSE [ok |-> TRUE, v |-> Len(Strip(api_key.v)) > 0, exc |-> ""]

IsNumber(x) == x.t \in {"int", "float", "bool"}

validate_vector(vector) ==
    /\ vector.t = "list"
    /\ Len(vector.v) > 0
    /\ \A i \in 1..Len(vector.v) : IsNumber(vector.v[i])

\* x in {"And", "Or", "Not"} hashes x: a list or a mapping raises TypeError
Unhashable(x) == x.t \in {"list", "dict"}

\* a Python set: a value JSON has no form for
PSet == [t |-> "set"]

\* json.dumps(x) succeeds: no value of a type JSON lacks (a set) inside x
RECURSIVE JsonSerializable(_)
JsonSerializable(x) ==
    CASE x.t = "set" -> FALSE
      [] x.t = "list" -> \A i \in 1..Len(x.v) : JsonSerializable(x.v[i])
      [] x.t = "dict" -> \A k \in DOMAIN x.v : JsonSerializable(x.v[k])
      [] OTHER -> TRUE

\* validate_where_filter raises instead of returning
validate_where_filter_raises(where_filter) ==
    /\ where_filter.t = "dict"
    /\ JsonSerializable(where_filter)
    /\ DictHas(where_filter, "operator")
    /\ Unhashable(where_filter.v["operator"])

\* the value validate_where_filter returns when it returns
validate_where_filter(where_filter) ==
    IF where_filter.t # "dict" THEN FALSE
    ELSE IF ~JsonSerializable(where_filter) THEN FALSE
    ELSE IF /\ DictHas(where_filter, "operator")
            /\ where_filter.v["operator"].t = "str"
            /\ where_filter.v["operator"].v \in {"And", "Or", "Not"}
         THEN DictHas(where_filter, "operands")
         ELSE DictHas(where_filter, "path") /\ DictHas(where_filter, "operator")

validate_limit(limit, max_limit) ==
    LET InRange(r) == r.ok /\ 1 <= r.v /\ r.v <= max_limit IN InRange(PyInt(limit))

\* alpha in tenths
validate_alpha(alpha) ==
    LET InRange(r) == r.ok /\ 0 <= r.v /\ r.v <= 10 IN InRange(PyFloat(alpha))

-----------------------------------------------------------------------------
(* The database and the SDK: the environment of the client wrapper *)

MaxGen == 1

\* identifiers the database hands out to objects inserted without one
GenIds == [i \in 1..MaxGen |-> IF i = 1 THEN "g1" ELSE IF i = 2 THEN "g2" ELSE "g3"]

IdOrder == <<"u1">> \o GenIds

AllIds == {IdOrder[i] : i \in 1..Len(IdOrder)}

FreeGen(objs) == SelectSeq(GenIds, LAMBDA g : g \notin objs)

StoredSeq(objs) == SelectSeq(IdOrder, LAMBDA x : x \in objs)

\* the environment's choices for one invocation:
\*   connect  what opening the connection does: "ok", "raise", "notready"
\*   sdk      what the database calls do: "ok" or "raise"
\*   at       which per-object call of a loop raises when sdk = "raise"
\*   llm      what the LLM call does: "ok" or "raise"
\*   reply    what the LLM's reply to the query agent holds
\*   usable   whether the retrieved documents carry text
EnvOK == [connect |-> "ok", sdk |-> "ok", at |-> 0, llm |-> "ok", reply |-> "text",
          usable |-> TRUE]

Ret(v) == [kind |-> "ret", v |-> v, exc |-> ""]
Raise(exc) == [kind |-> "raise", v |-> PNone, exc |-> exc]

Call(op, a) == [op |-> op, a |-> a]

Log(st, op, a) == [st EXCEPT !.calls = Append(@, Call(op, a))]

-----------------------------------------------------------------------------
(* utils/client.py: WeaviateClient *)

\* WeaviateClient.connect: a cached client is returned as it is
connect(st, e) ==
    IF st.wclient # "none" THEN [st |-> st, res |-> Ret(PNone)]
    ELSE CASE e.connect = "raise" ->
                [st |-> Log(st, "connect", PNone), res |-> Raise("WeaviateConnectionError")]
           [] e.connect = "notready" ->
                [st |-> [Log(Log(st, "connect", PNone), "is_ready", PNone)
                            EXCEPT !.wclient = "notready", !.opened = @ + 1],
                 res |-> Raise("ConnectionError")]
           [] OTHER ->
                [st |-> [Log(Log(st, "connect", PNone), "is_ready", PNone)
                            EXCEPT !.wclient = "ready", !.opened = @ + 1],
                 res |-> Ret(PNone)]

\* the mutant of disconnect: the connection is dropped without close()
disconnect_noclose(st) == [st EXCEPT !.wclient = "none"]

\* WeaviateClient.disconnect: close() may raise; _client is cleared in any case
disconnect(st) ==
    IF st.wclient # "none"
    THEN [Log(st, "close", PNone) EXCEPT !.wclient = "none", !.closed = @ + 1]
    ELSE [st EXCEPT !.wclient = "none"]

\* one SDK call after connect(): it raises when the environment says so
SdkFails(e) == e.sdk = "raise"

\* a client method whose body is: connect, one SDK call, reshape; every
\* exception is caught and turned into onError
Guarded(st, e, op, a, onOk, onError) ==
    LET Connected(c) ==
            IF c.res.kind = "raise" THEN [st |-> c.st, res |-> Ret(onError)]
            ELSE IF SdkFails(e) THEN [st |-> Log(c.st, op, a), res |-> Ret(onError)]
            ELSE [st |-> Log(c.st, op, a), res |-> Ret(onOk)]
    IN  Connected(connect(st, e))

Names(st) == SelectSeq(<<"Docs">>, LAMBDA n : n \in st.collections)

list_collections(st, e) ==
    Guarded(st, e, "collections.list_all", PNone, PList(Names(st)), PList(<<>>))

get_collection_schema(st, e, class_name) ==
    LET Connected(c) ==
            IF c.res.kind = "raise" THEN [st |-> c.st, res |-> Ret(PNone)]
            ELSE IF SdkFails(e) \/ class_name \notin st.collections
                 THEN [st |-> Log(c.st, "config.get", class_name), res |-> Ret(PNone)]
                 ELSE [st |-> Log(c.st, "config.get", class_name),
                       res |-> Ret(PDict([name |-> PStr(class_name)]))]
    IN  Connected(connect(st, e))

create_collection(st, e, class_name) ==
    LET Connected(c) ==
            IF c.res.kind = "raise" THEN [st |-> c.st, res |-> Ret(PBool(FALSE))]
            ELSE IF SdkFails(e) \/ class_name \in st.collections
                 THEN [st |-> Log(c.st, "collections.create", class_name),
                       res |-> Ret(PBool(FALSE))]
                 ELSE [st |-> [Log(c.st, "collections.create", class_name)
                                  EXCEPT !.collections = @ \cup {class_name}],
                       res |-> Ret(PBool(TRUE))]
    IN  Connected(connect(st, e))

\* the mutant of delete_collection: a missing collection is a failure
delete_collection_strict(st, e, class_name) ==
    LET Asked(c, s1) ==
            IF c.res.kind = "raise" THEN [st |-> c.st, res |-> Ret(PBool(FALSE))]
            ELSE IF SdkFails(e) THEN [st |-> s1, res |-> Ret(PBool(FALSE))]
            ELSE IF class_name \in st.collections
                 THEN [st |-> [Log(s1, "collections.delete", class_name)
                                  EXCEPT !.collections = @ \ {class_name},
                                         !.objects = {}],
                       res |-> Ret(PBool(TRUE))]
                 ELSE [st |-> s1, res |-> Ret(PBool(FALSE))]
        Connected(c) == Asked(c, Log(c.st, "collections.exists", class_name))
    IN  Connected(connect(st, e))

\* WeaviateClient.delete_collection
delete_collection(st, e, class_name) ==
    LET Asked(c, s1) ==
            IF c.res.kind = "raise" THEN [st |-> c.st, res |-> Ret(PBool(FALSE))]
            ELSE IF SdkFails(e) THEN [st |-> s1, res |-> Ret(PBool(FALSE))]
            ELSE IF class_name \in st.collections
                 THEN [st |-> [Log(s1, "collections.delete", class_name)
                                  EXCEPT !.collections = @ \ {class_name},
                                         !.objects = {}],
                       res |-> Ret(PBool(TRUE))]
                 ELSE [st |-> s1, res |-> Ret(PBool(TRUE))]
        Connected(c) == Asked(c, Log(c.st, "collections.exists", class_name))
    IN  Connected(connect(st, e))

get_collection_stats(st, e, class_name) ==
    LET Connected(c) ==
            IF c.res.kind = "raise" THEN [st |-> c.st, res |-> Ret(PNone)]
            ELSE IF SdkFails(e) \/ class_name \notin st.collections
                 THEN [st |-> Log(c.st, "aggregate.over_all", class_name),
                       res |-> Ret(PNone)]
                 ELSE [st |-> Log(c.st, "aggregate.over_all", class_name),
                       res |-> Ret(PDict([total_count |->
                                              PInt(Cardinality(st.objects))]))]
    IN  Connected(connect(st, e))

collection_exists(st, e, class_name) ==
    Guarded(st, e, "collections.exists", class_name,
            PBool(class_name \in st.collections), PBool(FALSE))

add_property(st, e, class_name, prop) ==
    Guarded(st, e, "config.add_property", class_name,
            PBool(class_name \in st.collections), PBool(FALSE))

update_collection_config(st, e, class_name, cfg) ==
    Guarded(st, e, "config.update", class_name,
            PBool(class_name \in st.collections), PBool(FALSE))

-----------------------------------------------------------------------------
(* utils/client.py: objects *)

DictGet(d, key) == IF key \in DOMAIN d.v THEN d.v[key] ELSE PNone

\* props = obj.get("properties") or obj
PropsOf(obj) ==
    IF Truthy(DictGet(obj, "properties")) THEN DictGet(obj, "properties") ELSE obj

\* the identifier the database stores an inserted object under
StoredId(objs, uid) ==
    IF uid.t = "str" THEN uid.v
    ELSE IF Len(FreeGen(objs)) > 0 THEN Head(FreeGen(objs)) ELSE ""

\* col.data.insert raises for a duplicate identifier, a missing collection,
\* or when the environment makes the i-th insert fail
InsertRaises(st, e, class_name, uid, i) ==
    \/ class_name \notin st.collections
    \/ e.sdk # "ok" /\ e.at = i
    \/ uid.t = "str" /\ uid.v \in st.objects
    \/ StoredId(st.objects, uid) = ""

\* the loop of insert_objects from index i on; uuids_out so far
RECURSIVE InsertLoop(_, _, _, _, _, _)
InsertLoop(st, e, class_name, objs, i, uuids) ==
    LET Insert(uid, s1, id) ==
            IF InsertRaises(st, e, class_name, uid, i)
            THEN [st |-> s1, res |-> Raise("InsertError")]
            ELSE InsertLoop([s1 EXCEPT !.objects = @ \cup {id}], e, class_name,
                            objs, i + 1, Append(uuids, id))
        Object(uid) ==
            Insert(uid, Log(st, "data.insert", [uuid |-> uid, props |-> PropsOf(objs[i])]),
                   StoredId(st.objects, uid))
    IN  IF i > Len(objs) THEN [st |-> st, res |-> Ret(PList(uuids))]
        ELSE IF objs[i].t # "dict"
             THEN InsertLoop(st, e, class_name, objs, i + 1, uuids)
             ELSE Object(DictGet(objs[i], "id"))

\* WeaviateClient.insert_objects: every exception is logged and raised again
insert_objects(st, e, class_name, objs) ==
    LET Inserted(c, r) ==
            IF c.res.kind = "raise" THEN [st |-> c.st, res |-> c.res]
            ELSE IF r.res.kind = "raise"
                 THEN [st |-> Log(r.st, "collections.exists", class_name), res |-> r.res]
                 ELSE r
        Connected(c) == Inserted(c, InsertLoop(c.st, e, class_name, objs, 1, <<>>))
    IN  Connected(connect(st, e))

\* the loop of insert_objects_batch: [st, ins, failed, errors]
RECURSIVE BatchLoop(_, _, _, _, _, _)
BatchLoop(st, e, objs, i, ins, errs) ==
    LET Add(s1, id) ==
            IF (e.sdk # "ok" /\ e.at = i) \/ id = ""
            THEN BatchLoop(s1, e, objs, i + 1, ins, Append(errs, i - 1))
            ELSE BatchLoop([s1 EXCEPT !.objects = @ \cup {id}], e, objs,
                           i + 1, ins + 1, errs)
        Object(uid) ==
            Add(Log(st, "batch.add_object", [uuid |-> uid, props |-> PropsOf(objs[i])]),
                StoredId(st.objects, uid))
    IN  IF i > Len(objs) THEN [st |-> st, ins |-> ins, errs |-> errs]
        ELSE IF objs[i].t # "dict"
             THEN BatchLoop(st, e, objs, i + 1, ins, Append(errs, i - 1))
             ELSE Object(DictGet(objs[i], "id"))

\* the mutant of the result mapping: failed_count is the number of errors
BatchResultByErrors(ins, failed, errs, total) ==
    PDict([inserted_count |-> PInt(ins), failed_count |-> PInt(Len(errs)),
           errors |-> PList(errs), total_processed |-> PInt(total)])

\* the mapping insert_objects_batch returns
BatchResult(ins, failed, errs, total) ==
    PDict([inserted_count |-> PInt(ins), failed_count |-> PInt(failed),
           errors |-> PList(errs), total_processed |-> PInt(total)])

\* WeaviateClient.insert_objects_batch
insert_objects_batch(st, e, class_name, objs) ==
    LET Added(c, r) ==
            IF c.res.kind = "raise" \/ class_name \notin st.collections
            THEN [st |-> c.st,
                  res |-> Ret(BatchResult(0, Len(objs), <<0>>, Len(objs)))]
            ELSE [st |-> r.st,
                  res |-> Ret(BatchResult(r.ins, Len(r.errs), r.errs, Len(objs)))]
        Connected(c) == Added(c, BatchLoop(c.st, e, objs, 1, 0, <<>>))
    IN  Connected(connect(st, e))

\* col.data.update / col.data.replace answer 404 for an unknown identifier
NotFound(st, class_name, uuid) ==
    class_name \notin st.collections \/ uuid \notin st.objects

\* the mutant of update_object: the 404 answer is reported as success
update_object_404_true(st, e, class_name, uuid) ==
    LET Updated(c, s1) ==
            IF c.res.kind = "raise" THEN [st |-> c.st, res |-> Ret(PBool(FALSE))]
            ELSE IF NotFound(st, class_name, uuid)
                 THEN [st |-> s1, res |-> Ret(PBool(TRUE))]
            ELSE IF SdkFails(e) THEN [st |-> s1, res |-> Ret(PBool(FALSE))]
            ELSE [st |-> s1, res |-> Ret(PBool(TRUE))]
        Connected(c) == Updated(c, Log(c.st, "data.update", [uuid |-> uuid]))
    IN  Connected(connect(st, e))

\* WeaviateClient.update_object
update_object(st, e, class_name, uuid) ==
    LET Updated(c, s1) ==
            IF c.res.kind = "raise" THEN [st |-> c.st, res |-> Ret(PBool(FALSE))]
            ELSE IF NotFound(st, class_name, uuid)
                 THEN [st |-> s1, res |-> Ret(PBool(FALSE))]
            ELSE IF SdkFails(e) THEN [st |-> s1, res |-> Ret(PBool(FALSE))]
            ELSE [st |-> s1, res |-> Ret(PBool(TRUE))]
        Connected(c) == Updated(c, Log(c.st, "data.update", [uuid |-> uuid]))
    IN  Connected(connect(st, e))

\* WeaviateClient.replace_object
replace_object(st, e, class_name, uuid) ==
    LET Replaced(c, s1) ==
            IF c.res.kind = "raise" THEN [st |-> c.st, res |-> Ret(PBool(FALSE))]
            ELSE IF NotFound(st, class_name, uuid) \/ SdkFails(e)
                 THEN [st |-> s1, res |-> Ret(PBool(FALSE))]
                 ELSE [st |-> s1, res |-> Ret(PBool(TRUE))]
        Connected(c) == Replaced(c, Log(c.st, "data.replace", [uuid |-> uuid]))
    IN  Connected(connect(st, e))

\* WeaviateClient.update_vector
update_vector(st, e, class_name, uuid) ==
    LET Updated(c, s1) ==
            IF c.res.kind = "raise" THEN [st |-> c.st, res |-> Ret(PBool(FALSE))]
            ELSE IF NotFound(st, class_name, uuid) \/ SdkFails(e)
                 THEN [st |-> s1, res |-> Ret(PBool(FALSE))]
                 ELSE [st |-> s1, res |-> Ret(PBool(TRUE))]
        Connected(c) ==
            Updated(c, Log(c.st, "data.update", [uuid |-> uuid, vector |-> TRUE]))
    IN  Connected(connect(st, e))

\* WeaviateClient.delete_object: only UnexpectedStatusCodeError is caught
delete_object(st, e, class_name, uuid) ==
    LET Deleted(c, s1) ==
            IF c.res.kind = "raise" THEN [st |-> c.st, res |-> c.res]
            ELSE IF e.sdk = "status" THEN [st |-> s1, res |-> Ret(PBool(FALSE))]
            ELSE IF e.sdk = "raise"
                 THEN [st |-> s1, res |-> Raise("WeaviateQueryError")]
            ELSE [st |-> [s1 EXCEPT !.objects = @ \ {uuid}], res |-> Ret(PBool(TRUE))]
        Connected(c) == Deleted(c, Log(c.st, "data.delete_by_id", [uuid |-> uuid]))
    IN  Connected(connect(st, e))

Doc(id, usable) ==
    PDict([uuid |-> PStr(id),
           properties |-> IF usable THEN PDict([text |-> PStr("x")])
                          ELSE PDict(EmptyDict)])

Docs(st, e) ==
    LET ids == StoredSeq(st.objects) IN [i \in 1..Len(ids) |-> Doc(ids[i], e.usable)]

\* WeaviateClient.get_object
get_object(st, e, class_name, uuid, return_properties) ==
    LET Fetched(c, s1) ==
            IF c.res.kind = "raise" THEN [st |-> c.st, res |-> Ret(PNone)]
            ELSE IF SdkFails(e) \/ NotFound(st, class_name, uuid)
                 THEN [st |-> s1, res |-> Ret(PNone)]
                 ELSE [st |-> s1, res |-> Ret(Doc(uuid, e.usable))]
        Connected(c) ==
            Fetched(c, Log(c.st, "query.fetch_object_by_id",
                           [uuid |-> uuid, props |-> return_properties]))
    IN  Connected(connect(st, e))

-----------------------------------------------------------------------------
(* utils/client.py: queries *)

\* WeaviateClient._build_where: every key of the mapping becomes an equality
\* on the property of that name
build_where(where_filter) ==
    IF ~Truthy(where_filter) THEN [f |-> "none"]
    ELSE [f |-> IF Cardinality(DOMAIN where_filter.v) = 1 THEN "equal" ELSE "and",
          conds |-> {[field |-> k, value |-> where_filter.v[k]] :
                        k \in DOMAIN where_filter.v}]

\* a query method: connect, one query, reshape; every exception gives []
Query(st, e, op, a, class_name, rejected) ==
    LET Connected(c) ==
            IF c.res.kind = "raise" THEN [st |-> c.st, res |-> Ret(PList(<<>>))]
            ELSE IF SdkFails(e) \/ class_name \notin st.collections \/ rejected
                 THEN [st |-> Log(c.st, op, a), res |-> Ret(PList(<<>>))]
                 ELSE [st |-> Log(c.st, op, a), res |-> Ret(PList(Docs(st, e)))]
    IN  Connected(connect(st, e))

QueryArgs(limit, where_filter, return_properties) ==
    [limit |-> limit, filters |-> build_where(where_filter), props |-> return_properties]

vector_search(st, e, class_name, query_vector, limit, where_filter, return_properties) ==
    Query(st, e, "query.near_vector",
          QueryArgs(limit, where_filter, return_properties), class_name, FALSE)

\* the database rejects a hybrid query that has neither text nor vector
HybridRejected(query, query_vector) == query = "" /\ ~Truthy(query_vector)

hybrid_search(st, e, class_name, query, query_vector, limit, where_filter, return_properties) ==
    Query(st, e, "query.hybrid", QueryArgs(limit, where_filter, return_properties),
          class_name, HybridRejected(query, query_vector))

text_search(st, e, class_name, query, limit, where_filter, return_properties) ==
    Query(st, e, "query.bm25", QueryArgs(limit, where_filter, return_properties),
          class_name, FALSE)

list_objects(st, e, class_name, where_filter, limit, return_properties) ==
    Query(st, e, "query.fetch_objects",
          QueryArgs(limit, where_filter, return_properties), class_name, FALSE)

DeleteFailed(dry_run) ==
    PDict([deleted_count |-> PInt(0), failed_count |-> PInt(1), dry_run |-> dry_run])

\* WeaviateClient.delete_by_filter
delete_by_filter(st, e, class_name, where_filter, dry_run) ==
    LET Counted(s1) ==
            IF SdkFails(e) \/ class_name \notin st.collections
            THEN [st |-> s1, res |-> Ret(DeleteFailed(dry_run))]
            ELSE [st |-> s1,
                  res |-> Ret(PDict([deleted_count |-> PInt(0),
                                     would_delete_count |-> PInt(Cardinality(st.objects)),
                                     dry_run |-> PBool(TRUE)]))]
        Deleted(s1) ==
            IF SdkFails(e) \/ class_name \notin st.collections
            THEN [st |-> s1, res |-> Ret(DeleteFailed(dry_run))]
            ELSE [st |-> [s1 EXCEPT !.objects = {}],
                  res |-> Ret(PDict([deleted_count |-> PInt(Cardinality(st.objects)),
                                     failed_count |-> PInt(0),
                                     dry_run |-> PBool(FALSE)]))]
        Connected(c) ==
            IF c.res.kind = "raise" THEN [st |-> c.st, res |-> Ret(DeleteFailed(dry_run))]
            ELSE IF Truthy(dry_run)
                 THEN Counted(Log(c.st, "query.fetch_objects", [where |-> where_filter]))
                 ELSE Deleted(Log(c.st, "data.delete_many", [where |-> where_filter]))
    IN  Connected(connect(st, e))

\* list_tenants, add_tenants and delete_tenants are attributes WeaviateClient
\* does not define: looking one up raises AttributeError before any call
missing_method(st) == [st |-> st, res |-> Raise("AttributeError")]

-----------------------------------------------------------------------------
(* The invocation of a tool by the host *)

St == [wclient |-> wclient, opened |-> opened, closed |-> closed, calls |-> calls,
       objects |-> objects, collections |-> collections]

SetSt(s) ==
    /\ wclient' = s.wclient
    /\ opened' = s.opened
    /\ closed' = s.closed
    /\ calls' = s.calls
    /\ objects' = s.objects
    /\ collections' = s.collections

NoArgs == [none |-> TRUE]
NoRes == [method |-> "", kind |-> "", v |-> PNone]
Res(method, r) == [method |-> method, kind |-> r.res.kind, v |-> r.res.v]

\* outcomes of the statements before the client is built
Yield(m) == [out |-> "yield", msg |-> m, exc |-> "", a |-> NoArgs]
Throw(exc) == [out |-> "raise", msg |-> create_text_message(""), exc |-> exc, a |-> NoArgs]
Proceed(a) == [out |-> "proceed", msg |-> create_text_message(""), exc |-> "", a |-> a]

\* outcomes of the inner try block
Yielded(r, method, m) == [st |-> r.st, out |-> "yield", msg |-> m, exc |-> "",
                          res |-> Res(method, r)]
Thrown(r, method) == [st |-> r.st, out |-> "raise", msg |-> create_text_message(""),
                      exc |-> r.res.exc, res |-> Res(method, r)]

\* (tool_parameters.get(k) or '').strip(): AttributeError on a true non-string
StripParam(x) ==
    LET Stripped(y) == IF y.t = "str" THEN [ok |-> TRUE, v |-> Strip(y.v)]
                       ELSE [ok |-> FALSE, v |-> ""]
    IN  Stripped(OrEmpty(Get(x)))

\* tool_parameters.get(k, default).strip(): AttributeError on any non-string
StripParamDefault(x, d) ==
    LET Stripped(y) == IF y.t = "str" THEN [ok |-> TRUE, v |-> Strip(y.v)]
                       ELSE [ok |-> FALSE, v |-> ""]
    IN  Stripped(GetDefault(x, PStr(d)))

TextTools == {"agent"}

\* the mutant of OuterExcept: no outer handler, the exception leaves _invoke
OuterExceptMissing(t, exc) == [msgs |-> <<>>, escaped |-> exc]

\* the mutant of the outermost handler: its message is yielded twice
OuterExceptTwice(t, exc) ==
    [msgs |-> <<create_error_response("Tool execution failed"),
                create_error_response("Tool execution failed")>>,
     escaped |-> ""]

\* the outermost "except Exception" of _invoke: one message, nothing raised
OuterExcept(t, exc) ==
    [msgs |-> <<IF t \in TextTools
                THEN create_text_message("Tool execution failed")
                ELSE create_error_response("Tool execution failed")>>,
     escaped |-> ""]

\* the "except Exception" of the inner try block
InnerExcept(t, exc) ==
    IF t \in TextTools THEN create_text_message("Query processing failed")
    ELSE IF t \in {"data", "schema", "tenant"}
         THEN create_error_response("Operation failed")
         ELSE create_error_response("Search failed")

\* _invoke up to the construction of the client; v is what the validation did
Begin(t, p, v) ==
    /\ pc = "idle"
    /\ tool' = t
    /\ params' = p
    /\ lastres' = NoRes
    /\ env' = EnvOK
    /\ UNCHANGED <<calls, wclient, opened, closed, objects, collections>>
    /\ UNCHANGED ivars
    /\ CASE v.out = "yield" ->
                msgs' = <<v.msg>> /\ escaped' = "" /\ pc' = "done" /\ args' = NoArgs
         [] v.out = "raise" ->
                /\ msgs' = OuterExcept(t, v.exc).msgs
                /\ escaped' = OuterExcept(t, v.exc).escaped
                /\ pc' = "done"
                /\ args' = NoArgs
         [] OTHER ->
                msgs' = <<>> /\ escaped' = "" /\ pc' = "body" /\ args' = v.a

\* the inner try block; b is what it did under the environment e
Body(t, e, b) ==
    /\ pc = "body"
    /\ tool = t
    /\ env' = e
    /\ SetSt(b.st)
    /\ lastres' = b.res
    /\ msgs' = Append(msgs, IF b.out = "yield" THEN b.msg ELSE InnerExcept(t, b.exc))
    /\ pc' = "finally"
    /\ UNCHANGED <<tool, params, args, escaped>>
    /\ UNCHANGED ivars

\* the finally block of _invoke: client.disconnect()
Finally ==
    /\ pc = "finally"
    /\ SetSt(disconnect(St))
    /\ pc' = "done"
    /\ UNCHANGED <<tool, params, args, msgs, escaped, lastres, env>>
    /\ UNCHANGED ivars

\* the generator is exhausted; the host may invoke the next tool
Return ==
    /\ pc = "done"
    /\ pc' = "idle"
    /\ tool' = "none"
    /\ params' = NoArgs
    /\ args' = NoArgs
    /\ msgs' = <<>>
    /\ calls' = <<>>
    /\ escaped' = ""
    /\ opened' = 0
    /\ closed' = 0
    /\ lastres' = NoRes
    /\ env' = EnvOK
    /\ UNCHANGED <<wclient, objects, collections>>
    /\ UNCHANGED ivars

\* environments of a method that makes one database call
ConnectEnvs == {[EnvOK EXCEPT !.connect = c] : c \in {"raise", "notready"}}
CallEnvs == {EnvOK, [EnvOK EXCEPT !.sdk = "raise"]} \cup ConnectEnvs

-----------------------------------------------------------------------------
(* Parameter values offered by the host *)

CollectionValues == {PAbsent, PStr("Docs"), PInt(7)}
LimitValues == {PAbsent, PInt(0), PInt(1000), PStr("1001"), PStr("abc")}
FilterValues == {PAbsent, PStr("  "), PStr("{bad"), PStr("[1]"), PStr(FilterSimple),
                 PStr(FilterLeaf), PStr(FilterListOp)}
PropsCsv == "a,b,c"
PropsJson == "[\"a\",\"b\",\"c\"]"
PropsValues == {PAbsent, PStr(PropsCsv), PStr(PropsJson)}
VectorValues == {PAbsent, PStr("1,2"), PStr("[1,2]"), PStr("x,y")}

\* return_properties as vector_search.py, hybrid_search.py and
\* data_management.py read it: a comma split of the stripped string
PropsFromString(s) == IF Len(s) > 0 THEN PList(SplitCsv(s)) ELSE PNone

\* [float(x.strip()) for x in qv_raw.split(',') if x.strip()]
RECURSIVE Floats(_)
Floats(parts) ==
    LET Cons(h, r) ==
            IF h.ok /\ r.ok THEN [ok |-> TRUE, v |-> <<[t |-> "float", v |-> h.v]>> \o r.v]
            ELSE [ok |-> FALSE, v |-> <<>>]
    IN  IF Len(parts) = 0 THEN [ok |-> TRUE, v |-> <<>>]
        ELSE Cons(PyFloat(PStr(Head(parts))), Floats(Tail(parts)))

\* query_vector from a JSON array or from comma separated numbers
ParseVector(qv) ==
    LET Numbers(r) == IF r.ok THEN [ok |-> TRUE, v |-> PList(r.v)]
                      ELSE [ok |-> FALSE, v |-> PNone]
    IN  IF StartsWith(qv, "[") THEN [ok |-> TRUE, v |-> safe_json_parse(PStr(qv), PNone)]
        ELSE Numbers(Floats(SplitCsv(qv)))

-----------------------------------------------------------------------------
(* tools/vector_search.py *)

VectorParams ==
    [collection_name : CollectionValues, query_vector : VectorValues,
     limit : LimitValues, where_filter : FilterValues,
     return_properties : PropsValues]

VectorValidate(p) ==
    LET Checked(cn, qv, wf, rp, limit, query_vector, where_filter) ==
            IF ~(cn.ok /\ qv.ok /\ wf.ok /\ rp.ok) THEN Throw("AttributeError")
            ELSE IF cn.v = ""
                 THEN Yield(create_error_response("Collection name is required"))
            ELSE IF qv.v = ""
                 THEN Yield(create_error_response("Query vector is required"))
            ELSE IF ~limit.ok
                 THEN Yield(create_error_response(
                                "Limit must be an integer between 1 and 1000"))
            ELSE IF ~validate_limit(PInt(limit.v), 1000)
                 THEN Yield(create_error_response("Limit must be between 1 and 1000"))
            ELSE IF ~query_vector.ok
                 THEN Yield(create_error_response("Invalid query vector"))
            ELSE IF ~validate_vector(query_vector.v)
                 THEN Yield(create_error_response(
                                "Query vector must be a non-empty list of numbers"))
            ELSE IF wf.v # "" /\ validate_where_filter_raises(where_filter)
                 THEN Throw("TypeError")
            ELSE IF wf.v # "" /\ (where_filter.t = "none"
                                  \/ ~validate_where_filter(where_filter))
                 THEN Yield(create_error_response("Invalid where filter format"))
            ELSE Proceed([collection_name |-> cn.v, query_vector |-> query_vector.v,
                          limit |-> PInt(limit.v),
                          where_filter |-> IF wf.v # "" THEN where_filter ELSE PNone,
                          return_properties |-> PropsFromString(rp.v)])
        Stripped(cn, qv, wf, rp) ==
            Checked(cn, qv, wf, rp, PyInt(GetDefault(p.limit, PInt(10))),
                    ParseVector(qv.v), safe_json_parse(PStr(wf.v), PNone))
    IN  Stripped(StripParam(p.collection_name), StripParam(p.query_vector),
                 StripParam(p.where_filter), StripParam(p.return_properties))

SearchFound(results, label) ==
    IF ~Truthy(results)
    THEN create_success_response(PDict([results |-> PList(<<>>), count |-> PInt(0)]),
                                 "No results found")
    ELSE create_success_response(PDict([results |-> results,
                                        count |-> PInt(Len(results.v))]), label)

VectorBody(st, e, a) ==
    LET Searched(r) ==
            IF r.res.kind = "raise" THEN Thrown(r, "vector_search")
            ELSE Yielded(r, "vector_search",
                         SearchFound(r.res.v, "Found similar vectors"))
    IN  Searched(vector_search(st, e, a.collection_name, a.query_vector, a.limit,
                               a.where_filter, a.return_properties))

InvokeVector ==
    /\ pc = "idle"
    /\ \E p \in VectorParams : Begin("vector", p, VectorValidate(p))

VectorSearch ==
    /\ pc = "body" /\ tool = "vector"
    /\ \E e \in CallEnvs : Body("vector", e, VectorBody(St, e, args))

-----------------------------------------------------------------------------
(* tools/keyword_search.py *)

QueryValues == {PAbsent, PStr(" "), PStr("q")}

\* _to_list of keyword_search.py and generative_search.py
to_list(value) ==
    LET Text(s) == IF Len(s) = 0 THEN PNone ELSE PList(SplitCsv(s)) IN
    IF value.t = "none" THEN PNone
    ELSE IF value.t = "list" THEN PList(StrStripNonEmpty(value.v))
    ELSE Text(Strip(PyStr(value)))

\* where_filter given as a JSON string or as a mapping: [ok, v]
FilterParam(raw) ==
    LET Parsed(w) == IF validate_where_filter_raises(w)
                     THEN [ok |-> FALSE, v |-> PNone, exc |-> "TypeError"]
                     ELSE IF w.t = "none" \/ ~validate_where_filter(w)
                     THEN [ok |-> FALSE, v |-> PNone, exc |-> ""]
                     ELSE [ok |-> TRUE, v |-> w, exc |-> ""]
        Text(s) == IF s = "" THEN [ok |-> TRUE, v |-> PNone, exc |-> ""]
                   ELSE Parsed(safe_json_parse(PStr(s), PNone))
    IN  IF raw.t = "str" THEN Text(Strip(raw.v))
        ELSE IF raw.t = "dict" THEN Parsed(raw)
        ELSE [ok |-> TRUE, v |-> PNone, exc |-> ""]

KeywordParams ==
    [collection_name : CollectionValues, query : {PAbsent, PStr("q")},
     limit : LimitValues, where_filter : FilterValues,
     return_properties : PropsValues]

KeywordValidate(p) ==
    LET Checked(cn, query, limit, wf) ==
            IF ~(cn.ok /\ query.ok) THEN Throw("AttributeError")
            ELSE IF cn.v = ""
                 THEN Yield(create_error_response("Collection name is required"))
            ELSE IF query.v = "" THEN Yield(create_error_response("Query is required"))
            ELSE IF ~limit.ok
                 THEN Yield(create_error_response(
                                "Limit must be an integer between 1 and 1000"))
            ELSE IF ~validate_limit(PInt(limit.v), 1000)
                 THEN Yield(create_error_response("Limit must be between 1 and 1000"))
            ELSE IF wf.exc # "" THEN Throw(wf.exc)
            ELSE IF ~wf.ok THEN Yield(create_error_response("Invalid where filter"))
            ELSE Proceed([collection_name |-> cn.v, query |-> query.v,
                          limit |-> PInt(limit.v), where_filter |-> wf.v,
                          return_properties |-> to_list(Get(p.return_properties))])
    IN  Checked(StripParam(p.collection_name), StripParam(p.query),
                PyInt(GetDefault(p.limit, PInt(10))), FilterParam(Get(p.where_filter)))

KeywordBody(st, e, a) ==
    LET Searched(r) ==
            IF r.res.kind = "raise" THEN Thrown(r, "text_search")
            ELSE Yielded(r, "text_search",
                         SearchFound(r.res.v, "Found documents matching keywords"))
    IN  Searched(text_search(st, e, a.collection_name, a.query, a.limit,
                             a.where_filter, a.return_properties))

InvokeKeyword ==
    /\ pc = "idle"
    /\ \E p \in KeywordParams : Begin("keyword", p, KeywordValidate(p))

KeywordSearch ==
    /\ pc = "body" /\ tool = "keyword"
    /\ \E e \in CallEnvs : Body("keyword", e, KeywordBody(St, e, args))

-----------------------------------------------------------------------------
(* tools/hybrid_search.py *)

AlphaValues == {PAbsent, PStr("1.5"), PStr("x")}

HybridParams ==
    [collection_name : CollectionValues, query : QueryValues,
     query_vector : {PAbsent, PStr(" "), PStr("1,2"), PStr("x,y")},
     alpha : AlphaValues, limit : LimitValues,
     where_filter : {PAbsent, PStr("{bad"), PStr(FilterLeaf), PDict(EmptyDict)},
     return_properties : {PAbsent, PStr(PropsJson)}]

\* the mutant of QueryMissing: the check is left out
QueryMissingUnchecked(query, qv_raw) == FALSE

\* "if not query and not qv_raw": neither a query text nor a query vector
QueryMissing(query, qv_raw) == query = "" /\ ~Truthy(qv_raw)

HybridValidate(p) ==
    LET Checked(cn, query, wf, rp, qv_raw, alpha, limit, query_vector, where_filter) ==
            IF ~(cn.ok /\ query.ok /\ wf.ok /\ rp.ok) THEN Throw("AttributeError")
            ELSE IF cn.v = ""
                 THEN Yield(create_text_message("Error: Collection name is required"))
            ELSE IF QueryMissing(query.v, qv_raw)
                 THEN Yield(create_text_message(
                                "Error: Either query text or query vector is required"))
            ELSE IF ~alpha.ok
                 THEN Yield(create_text_message(
                                "Error: Alpha must be a number between 0.0 and 1.0"))
            ELSE IF ~validate_alpha([t |-> "float", v |-> alpha.v])
                 THEN Yield(create_text_message(
                                "Error: Alpha must be between 0.0 and 1.0"))
            ELSE IF ~limit.ok
                 THEN Yield(create_text_message(
                                "Error: Limit must be an integer between 1 and 1000"))
            ELSE IF ~validate_limit(PInt(limit.v), 1000)
                 THEN Yield(create_text_message(
                                "Error: Limit must be between 1 and 1000"))
            ELSE IF Truthy(qv_raw) /\ qv_raw.t # "str" THEN Throw("AttributeError")
            ELSE IF Truthy(qv_raw) /\ ~query_vector.ok
                 THEN Yield(create_text_message("Error: Invalid query vector"))
            ELSE IF Truthy(qv_raw) /\ ~validate_vector(query_vector.v)
                 THEN Yield(create_text_message(
                                "Error: Query vector must be a non-empty list of numbers"))
            ELSE IF wf.v # "" /\ validate_where_filter_raises(where_filter)
                 THEN Throw("TypeError")
            ELSE IF wf.v # "" /\ (where_filter.t = "none"
                                  \/ ~validate_where_filter(where_filter))
                 THEN Yield(create_text_message("Error: Invalid where filter format"))
            ELSE Proceed([collection_name |-> cn.v, query |-> query.v,
                          query_vector |-> IF Truthy(qv_raw) THEN query_vector.v
                                           ELSE PNone,
                          limit |-> PInt(limit.v),
                          where_filter |-> IF wf.v # "" THEN where_filter ELSE PNone,
                          return_properties |-> PropsFromString(rp.v)])
        Stripped(cn, query, wf, rp, qv_raw) ==
            Checked(cn, query, wf, rp, qv_raw,
                    PyFloat(GetDefault(p.alpha, [t |-> "float", v |-> 7])),
                    PyInt(GetDefault(p.limit, PInt(10))),
                    IF qv_raw.t = "str" THEN ParseVector(qv_raw.v)
                    ELSE [ok |-> FALSE, v |-> PNone],
                    safe_json_parse(PStr(wf.v), PNone))
        Raw(qv0) == IF qv0.t = "str" THEN PStr(Strip(qv0.v)) ELSE qv0
    IN  Stripped(StripParam(p.collection_name), StripParam(p.query),
                 StripParam(p.where_filter), StripParam(p.return_properties),
                 Raw(GetDefault(p.query_vector, PStr(""))))

HybridBody(st, e, a) ==
    LET Searched(r) ==
            IF r.res.kind = "raise" THEN Thrown(r, "hybrid_search")
            ELSE Yielded(r, "hybrid_search",
                         SearchFound(r.res.v, "Found results using hybrid search"))
    IN  Searched(hybrid_search(st, e, a.collection_name, a.query, a.query_vector,
                               a.limit, a.where_filter, a.return_properties))

InvokeHybrid ==
    /\ pc = "idle"
    /\ \E p \in HybridParams : Begin("hybrid", p, HybridValidate(p))

HybridSearch ==
    /\ pc = "body" /\ tool = "hybrid"
    /\ \E e \in CallEnvs : Body("hybrid", e, HybridBody(St, e, args))

-----------------------------------------------------------------------------
(* tools/generative_search.py *)

GenerativeParams ==
    [collection_name : {PAbsent, PStr("Docs")}, query : {PAbsent, PStr("q")},
     query_vector : {PAbsent, PStr("1,2"), PStr("[]")},
     limit : LimitValues \cup {PInt(20)},
     llm_provider : {PAbsent, PStr("other")},
     llm_api_key : {PAbsent, PStr("key")},
     where_filter : {PAbsent, PStr("  "), PStr("{bad"), PStr(FilterLeaf)},
     return_properties : {PAbsent, PStr(PropsJson)}]

RECURSIVE FloatList(_)
FloatList(xs) ==
    LET Cons(h, r) ==
            IF h.ok /\ r.ok THEN [ok |-> TRUE, v |-> <<[t |-> "float", v |-> h.v]>> \o r.v]
            ELSE [ok |-> FALSE, v |-> <<>>]
    IN  IF Len(xs) = 0 THEN [ok |-> TRUE, v |-> <<>>]
        ELSE Cons(PyFloat(Head(xs)), FloatList(Tail(xs)))

\* _parse_query_vector: None whenever the value cannot be read
parse_query_vector(raw) ==
    LET Numbers(r) == IF r.ok THEN PList(r.v) ELSE PNone
        Array(arr) == IF arr.t = "list" THEN Numbers(FloatList(arr.v)) ELSE PNone
        Text(s) == IF s = "" THEN PNone
                   ELSE IF StartsWith(s, "[") THEN Array(safe_json_parse(PStr(s), PNone))
                   ELSE Numbers(Floats(SplitCsv(s)))
    IN  IF raw.t = "none" THEN PNone
        ELSE IF raw.t = "list" THEN Numbers(FloatList(raw.v))
        ELSE Text(Strip(PyStr(raw)))

GenerativeValidate(p) ==
    LET Checked(cn, query, provider, key, limit, query_vector, wf) ==
            IF ~(cn.ok /\ query.ok /\ provider.ok /\ key.ok) THEN Throw("AttributeError")
            ELSE IF cn.v = ""
                 THEN Yield(create_error_response("Collection name is required"))
            ELSE IF query.v = "" THEN Yield(create_error_response("Query is required"))
            ELSE IF ~limit.ok
                 THEN Yield(create_error_response(
                                "Limit must be an integer between 1 and 20"))
            ELSE IF ~(1 <= limit.v /\ limit.v <= 20)
                 THEN Yield(create_error_response("Limit must be between 1 and 20"))
            ELSE IF ~validate_limit(PInt(limit.v), 1000)
                 THEN Yield(create_error_response("Limit must be between 1 and 1000"))
            ELSE IF query_vector.t # "none" /\ ~validate_vector(query_vector)
                 THEN Yield(create_error_response(
                                "query_vector must be a non-empty list of numbers"))
            ELSE IF wf.exc # "" THEN Throw(wf.exc)
            ELSE IF ~wf.ok THEN Yield(create_error_response("Invalid where filter JSON"))
            ELSE Proceed([collection_name |-> cn.v, query |-> query.v,
                          query_vector |-> query_vector, limit |-> PInt(limit.v),
                          llm_provider |-> provider.v, llm_api_key |-> key.v,
                          where_filter |-> wf.v,
                          return_properties |-> to_list(Get(p.return_properties))])
    IN  Checked(StripParam(p.collection_name), StripParam(p.query),
                StripParam(IF Truthy(Get(p.llm_provider)) THEN p.llm_provider
                           ELSE PStr("openai")),
                StripParam(p.llm_api_key), PyInt(GetDefault(p.limit, PInt(5))),
                parse_query_vector(Get(p.query_vector)),
                FilterParam(Get(p.where_filter)))

\* props_to_text of one retrieved document
props_to_text(doc) ==
    LET props == DictGet(doc, "properties") IN
    IF props.t = "dict" /\ DictHas(props, "text") /\ props.v["text"].t = "str"
    THEN props.v["text"].v ELSE ""

\* the mutant of Passages: blank texts are kept
PassagesUnfiltered(results) ==
    [i \in 1..Len(results) |-> props_to_text(results[i])]

\* context_passages: the texts that are not blank
Passages(results) ==
    LET texts == [i \in 1..Len(results) |-> props_to_text(results[i])] IN
    SelectSeq(texts, LAMBDA c : Strip(c) # "")

GenData(results, answer, context) ==
    PDict([results |-> results, count |-> PInt(Len(results.v)), answer |-> answer,
           context |-> PList(context)])

\* _generate_response_llm: one call of the provider's API, none for an
\* unknown provider
generate_response_llm(st, e, llm_provider) ==
    IF llm_provider \in {"openai", "anthropic"}
    THEN [st |-> Log(st, "llm.create", PStr(llm_provider)),
          res |-> IF e.llm = "ok" THEN Ret(PStr("answer")) ELSE Raise("APIError")]
    ELSE [st |-> st, res |-> Ret(PStr(""))]

\* the mutant of GenerationFailed: the LLM's exception is not caught apart
GenerationFailedUncaught(g, results, context) == Thrown(g, "generate")

\* except Exception as gen_err: the retrieved context without an answer
GenerationFailed(g, results, context) ==
    Yielded(g, "generate", create_success_response(
        GenData(results, PNone, context), "Retrieved documents; generation failed"))

GenerativeBody(st, e, a) ==
    LET Generated(r, method, results, context, g) ==
            IF r.res.kind = "raise" THEN Thrown(r, method)
            ELSE IF ~Truthy(results)
                 THEN Yielded(r, method, create_success_response(
                          GenData(PList(<<>>), PNone, <<>>), "No relevant documents found"))
            ELSE IF Len(context) = 0
                 THEN Yielded(r, method, create_success_response(
                          GenData(results, PNone, <<>>),
                          "Retrieved documents had no usable text content"))
            ELSE IF a.llm_api_key = ""
                 THEN Yielded(r, method, create_success_response(
                          GenData(results, PNone, context),
                          "Retrieved documents; no generation performed"))
            ELSE IF g.res.kind = "raise"
                 THEN GenerationFailed(g, results, context)
                 ELSE Yielded(g, "generate", create_success_response(
                          GenData(results, g.res.v, context),
                          "Retrieved documents and generated an answer"))
        Retrieved(r, method) ==
            Generated(r, method, r.res.v, Passages(r.res.v.v),
                      generate_response_llm(r.st, e, a.llm_provider))
    IN  IF Truthy(a.query_vector)
        THEN Retrieved(hybrid_search(st, e, a.collection_name, a.query, a.query_vector,
                                     a.limit, a.where_filter, a.return_properties),
                       "hybrid_search")
        ELSE Retrieved(text_search(st, e, a.collection_name, a.query, a.limit,
                                   a.where_filter, a.return_properties),
                       "text_search")

GenerativeEnvs ==
    CallEnvs \cup {[EnvOK EXCEPT !.llm = "raise"], [EnvOK EXCEPT !.usable = FALSE]}

InvokeGenerative ==
    /\ pc = "idle"
    /\ \E p \in GenerativeParams : Begin("generative", p, GenerativeValidate(p))

GenerativeSearch ==
    /\ pc = "body" /\ tool = "generative"
    /\ \E e \in GenerativeEnvs : Body("generative", e, GenerativeBody(St, e, args))

-----------------------------------------------------------------------------
(* tools/data_management.py *)

UpperCase == <<"A", "B", "C", "D", "E", "F", "G", "H", "I", "J", "K", "L", "M",
               "N", "O", "P", "Q", "R", "S", "T", "U", "V", "W", "X", "Y", "Z">>
LowerCase == <<"a", "b", "c", "d", "e", "f", "g", "h", "i", "j", "k", "l", "m",
               "n", "o", "p", "q", "r", "s", "t", "u", "v", "w", "x", "y", "z">>

LowerChar(c) ==
    IF \E i \in 1..26 : UpperCase[i] = c
    THEN LowerCase[CHOOSE i \in 1..26 : UpperCase[i] = c] ELSE c

RECURSIVE LowerFrom(_, _)
LowerFrom(s, i) ==
    IF i > Len(s) THEN "" ELSE LowerChar(Char(s, i)) \o LowerFrom(s, i + 1)

\* str.lower()
Lower(s) == LowerFrom(s, 1)

DataOps == {"list_collections", "insert", "update", "delete", "get", "list_objects"}

DataBase ==
    [operation |-> PAbsent, collection_name |-> PAbsent, object_data |-> PAbsent,
     object_uuid |-> PAbsent, return_properties |-> PAbsent, where_filter |-> PAbsent,
     limit |-> PAbsent, mode |-> PAbsent, update_mode |-> PAbsent, dry_run |-> PAbsent]

InsertTexts ==
    {PAbsent, PStr(ObjWithId), PStr("[" \o ObjWithId \o "]"), PStr(ObjRaw),
     PStr("[" \o ObjRaw \o "]"), PStr("[" \o ObjRaw \o "," \o ObjWithId \o "]"),
     PStr("[]"), PStr("[1]"), PStr("{bad"), PStr("1")}

DataParams ==
    {[DataBase EXCEPT !.operation = o] : o \in {PAbsent, PStr("bogus"), PInt(3),
                                                PStr(" List_Collections ")}}
    \cup {[DataBase EXCEPT !.operation = PStr("insert"), !.collection_name = c,
                           !.object_data = d, !.mode = m] :
            c \in CollectionValues, d \in InsertTexts, m \in {PAbsent, PStr("batch")}}
    \cup {[DataBase EXCEPT !.operation = PStr("update"), !.collection_name = c,
                           !.object_uuid = u, !.object_data = d, !.update_mode = m] :
            c \in {PAbsent, PStr("Docs")}, u \in {PAbsent, PStr("u1")},
            d \in {PAbsent, PStr(ObjRaw), PStr(ObjVector), PStr("[1]")},
            m \in {PAbsent, PStr("replace"), PStr("vector_only")}}
    \cup {[DataBase EXCEPT !.operation = PStr("delete"), !.collection_name = c,
                           !.object_uuid = u, !.where_filter = w, !.dry_run = r] :
            c \in {PAbsent, PStr("Docs")}, u \in {PAbsent, PStr("u1")},
            w \in {PAbsent, PStr("  "), PStr("{bad"), PStr("[1]"), PStr(FilterSimple)},
            r \in {PAbsent, PBool(TRUE)}}
    \cup {[DataBase EXCEPT !.operation = PStr("get"), !.collection_name = c,
                           !.object_uuid = u, !.return_properties = r] :
            c \in {PAbsent, PStr("Docs")}, u \in {PAbsent, PStr("u1")},
            r \in PropsValues}
    \cup {[DataBase EXCEPT !.operation = PStr("list_objects"), !.collection_name = c,
                           !.where_filter = w, !.limit = l, !.return_properties = r] :
            c \in {PAbsent, PStr("Docs")}, w \in FilterValues, l \in LimitValues,
            r \in PropsValues}

DataValidate(p) ==
    LET Checked(op, operation, cn, od, uuid, rp) ==
            IF ~(op.ok /\ cn.ok /\ od.ok /\ uuid.ok /\ rp.ok) THEN Throw("AttributeError")
            ELSE IF operation \notin DataOps
                 THEN Yield(create_error_response("Unknown operation"))
            ELSE IF operation # "list_collections" /\ cn.v = ""
                 THEN Yield(create_error_response("Collection name is required"))
            ELSE Proceed([operation |-> operation, collection_name |-> cn.v,
                          object_data_str |-> od.v, object_uuid |-> uuid.v,
                          return_properties_str |-> rp.v])
        Stripped(op) ==
            Checked(op, Lower(op.v), StripParam(p.collection_name),
                    StripParam(p.object_data), StripParam(p.object_uuid),
                    StripParam(p.return_properties))
    IN  Stripped(StripParam(p.operation))

Same(st) == [st |-> st, res |-> Ret(PNone)]

DataListObjects(st, e, a, p) ==
    LET Listed(r) ==
            Yielded(r, "list_objects", create_success_response(
                PDict([objects |-> r.res.v, count |-> PInt(Len(r.res.v.v))]),
                "Retrieved objects"))
        Filtered(raw, where_filter) ==
            IF Truthy(raw) /\ where_filter.t # "dict"
            THEN Yielded(Same(st), "", create_error_response("Invalid where_filter format"))
            ELSE Listed(list_objects(st, e, a.collection_name, where_filter,
                                     GetDefault(p.limit, PInt(100)),
                                     PropsFromString(a.return_properties_str)))
        Read(raw) ==
            Filtered(raw, IF Truthy(raw) THEN safe_json_parse(raw, PNone) ELSE PNone)
    IN  Read(Get(p.where_filter))

\* the mutant of Payload: an array is read as no objects
PayloadDropsArray(object_data) ==
    IF object_data.t = "dict" THEN <<object_data>> ELSE <<>>

\* a single object or an array of objects
Payload(object_data) == IF object_data.t = "dict" THEN <<object_data>> ELSE object_data.v

DataInsert(st, e, a, p) ==
    LET Batch(b) ==
            Yielded(b, "insert_objects_batch", create_success_response(
                PDict([inserted_count |-> b.res.v.v.inserted_count,
                       failed_count |-> b.res.v.v.failed_count,
                       errors |-> b.res.v.v.errors]), "Batch insert completed"))
        Single(s) ==
            IF s.res.kind = "raise"
            THEN Yielded(s, "insert_objects", create_error_response("Insert failed"))
            ELSE IF Truthy(s.res.v)
            THEN Yielded(s, "insert_objects", create_success_response(
                     PDict([inserted_uuids |-> s.res.v, count |-> PInt(Len(s.res.v.v))]),
                     "Successfully inserted objects"))
            ELSE Yielded(s, "insert_objects", create_error_response(
                     "Failed to insert objects - no UUIDs returned"))
        Parsed(object_data, mode) ==
            IF a.object_data_str = ""
            THEN Yielded(Same(st), "", create_error_response(
                     "Object data is required for insert operation"))
            ELSE IF object_data.t = "none"
            THEN Yielded(Same(st), "", create_error_response("Invalid object data format"))
            ELSE IF object_data.t \notin {"dict", "list"}
            THEN Yielded(Same(st), "", create_error_response(
                     "Object data must be a JSON object or an array of objects"))
            ELSE IF mode = PStr("batch")
            THEN Batch(insert_objects_batch(st, e, a.collection_name,
                                            Payload(object_data)))
            ELSE Single(insert_objects(st, e, a.collection_name, Payload(object_data)))
    IN  Parsed(safe_json_parse(PStr(a.object_data_str), PNone),
               GetDefault(p.mode, PStr("single")))

\* what the update branch yields for the result of the client method
UpdateOutcome(r, method) ==
    IF r.res.kind = "raise"
    THEN Yielded(r, method, create_error_response("Update failed"))
    ELSE IF Truthy(r.res.v)
    THEN Yielded(r, method, create_success_response(PNone, "Object updated successfully"))
    ELSE Yielded(r, method, create_error_response("Failed to update object"))

DataUpdate(st, e, a, p) ==
    LET Parsed(object_data, update_mode) ==
            IF a.object_uuid = ""
            THEN Yielded(Same(st), "", create_error_response(
                     "Object UUID is required for update operation"))
            ELSE IF a.object_data_str = ""
            THEN Yielded(Same(st), "", create_error_response(
                     "Object data is required for update operation"))
            ELSE IF object_data.t # "dict"
            THEN Yielded(Same(st), "", create_error_response("Invalid object data format"))
            ELSE IF update_mode = PStr("replace")
            THEN UpdateOutcome(replace_object(st, e, a.collection_name, a.object_uuid),
                               "replace_object")
            ELSE IF update_mode = PStr("vector_only")
            THEN (IF ~Truthy(DictGet(object_data, "vector"))
                  THEN Yielded(Same(st), "", create_error_response(
                           "Vector data is required for vector_only update mode"))
                  ELSE UpdateOutcome(update_vector(st, e, a.collection_name,
                                                   a.object_uuid), "update_vector"))
            ELSE UpdateOutcome(update_object(st, e, a.collection_name, a.object_uuid),
                               "update_object")
    IN  Parsed(safe_json_parse(PStr(a.object_data_str), PNone),
               GetDefault(p.update_mode, PStr("merge")))

DataDelete(st, e, a, p) ==
    LET ByFilter(f, dry_run) ==
            IF Truthy(dry_run)
            THEN (IF DictHas(f.res.v, "would_delete_count")
                  THEN Yielded(f, "delete_by_filter",
                               create_success_response(f.res.v, "Dry run"))
                  ELSE [st |-> f.st, out |-> "raise", msg |-> create_text_message(""),
                        exc |-> "KeyError", res |-> Res("delete_by_filter", f)])
            ELSE Yielded(f, "delete_by_filter",
                         create_success_response(f.res.v, "Deleted objects"))
        ById(d) ==
            IF d.res.kind = "raise" THEN Thrown(d, "delete_object")
            ELSE IF Truthy(d.res.v)
            THEN Yielded(d, "delete_object", create_success_response(
                     PDict([uuid |-> PStr(a.object_uuid)]), "Object deleted successfully"))
            ELSE Yielded(d, "delete_object",
                         create_error_response("Failed to delete object"))
        Read(raw, where_filter, dry_run) ==
            IF Truthy(raw)
            THEN (IF where_filter.t # "dict"
                  THEN Yielded(Same(st), "", create_error_response(
                           "Invalid where_filter format"))
                  ELSE ByFilter(delete_by_filter(st, e, a.collection_name, where_filter,
                                                 dry_run), dry_run))
            ELSE IF a.object_uuid = ""
            THEN Yielded(Same(st), "", create_error_response(
                     "Object UUID or where_filter is required for delete operation"))
            ELSE ById(delete_object(st, e, a.collection_name, a.object_uuid))
    IN  Read(Get(p.where_filter), safe_json_parse(Get(p.where_filter), PNone),
             GetDefault(p.dry_run, PBool(FALSE)))

DataGet(st, e, a, p) ==
    LET Got(r) ==
            IF Truthy(r.res.v)
            THEN Yielded(r, "get_object", create_success_response(
                     PDict([object |-> r.res.v]), "Object retrieved successfully"))
            ELSE Yielded(r, "get_object", create_success_response(
                     PDict([object |-> PNone]), "Object not found"))
    IN  IF a.object_uuid = ""
        THEN Yielded(Same(st), "", create_error_response(
                 "Object UUID is required for get operation"))
        ELSE Got(get_object(st, e, a.collection_name, a.object_uuid,
                            PropsFromString(a.return_properties_str)))

DataBody(st, e, a, p) ==
    LET Collections(r) ==
            Yielded(r, "list_collections", create_success_response(
                PDict([collections |-> r.res.v, count |-> PInt(Len(r.res.v.v))]),
                "Found collections"))
    IN  CASE a.operation = "list_collections" -> Collections(list_collections(st, e))
          [] a.operation = "list_objects" -> DataListObjects(st, e, a, p)
          [] a.operation = "insert" -> DataInsert(st, e, a, p)
          [] a.operation = "update" -> DataUpdate(st, e, a, p)
          [] a.operation = "delete" -> DataDelete(st, e, a, p)
          [] OTHER -> DataGet(st, e, a, p)

DataEnvs ==
    CallEnvs \cup {[EnvOK EXCEPT !.sdk = "status"]}
             \cup {[EnvOK EXCEPT !.sdk = "raise", !.at = i] : i \in 1..2}

\* the objects of a request that the database has to name itself
RECURSIVE Unnamed(_)
Unnamed(objs) ==
    IF Len(objs) = 0 THEN 0
    ELSE (IF Head(objs).t = "dict" /\ DictGet(Head(objs), "id").t # "str" THEN 1 ELSE 0)
         + Unnamed(Tail(objs))

\* the database is kept within GenIds: a request that needs more fresh
\* identifiers than are left is not offered
CanStore(p) ==
    LET Fits(d) == d.t \in {"dict", "list"} => Unnamed(Payload(d)) <= Len(FreeGen(objects))
    IN  Fits(safe_json_parse(Get(p.object_data), PNone))

InvokeData ==
    /\ pc = "idle"
    /\ \E p \in DataParams : CanStore(p) /\ Begin("data", p, DataValidate(p))

DataManagement ==
    /\ pc = "body" /\ tool = "data"
    /\ \E e \in DataEnvs : Body("data", e, DataBody(St, e, args, params))

-----------------------------------------------------------------------------
(* tools/schema_management.py *)

IsNameStart(c) == (IsAlnum(c) /\ ~IsDigit(c)) \/ c = "_"

IsNameChar(c) == IsAlnum(c) \/ c = "_"

\* re.match(r'^[A-Za-z_][A-Za-z0-9_]*$', name); $ also matches before a final newline
NameMatches(s) ==
    /\ Len(s) > 0
    /\ IsNameStart(Char(s, 1))
    /\ \A i \in 2..Len(s) : IsNameChar(Char(s, i)) \/ (i = Len(s) /\ Char(s, i) = "\n")

validate_collection_name(name) == Len(name) > 0 /\ NameMatches(name)

VALID_DATA_TYPES ==
    {"text", "int", "number", "boolean", "date", "uuid", "geoCoordinates", "blob"}

ValidProperty(prop) ==
    /\ prop.t = "dict"
    /\ DictGet(prop, "name").t = "str"
    /\ Len(DictGet(prop, "name").v) > 0
    /\ NameMatches(DictGet(prop, "name").v)
    /\ DictGet(prop, "data_type").t = "str"
    /\ DictGet(prop, "data_type").v \in VALID_DATA_TYPES

validate_properties(properties) ==
    /\ properties.t = "list"
    /\ Len(properties.v) > 0
    /\ \A i \in 1..Len(properties.v) : ValidProperty(properties.v[i])

SchemaOps == {"list_collections", "create_collection", "delete_collection", "get_schema",
              "get_stats", "exists", "add_property", "update_config"}

ALLOWED_VECTORIZERS == {"self_provided", "text2vec-openai", "text2vec-transformers"}

SchemaBase ==
    [operation |-> PAbsent, collection_name |-> PAbsent, properties |-> PAbsent,
     vectorizer |-> PAbsent, property |-> PAbsent, config |-> PAbsent]

SchemaParams ==
    {[SchemaBase EXCEPT !.operation = o, !.collection_name = c, !.vectorizer = v] :
        o \in {PAbsent, PStr("list_collections"), PStr("delete_collection"),
               PStr("get_schema"), PStr("Get_Stats"), PStr("exists"), PInt(3)},
        c \in {PAbsent, PStr("Docs"), PStr("9x"), PInt(7)},
        v \in {PAbsent, PStr("none"), PStr("bad")}}
    \cup {[SchemaBase EXCEPT !.operation = PStr("create_collection"),
                             !.collection_name = PStr("Docs"), !.properties = q] :
            q \in {PAbsent, PStr(PropText), PStr("[" \o PropText \o "]"),
                   PStr(PropNoType), PStr("{bad")}}
    \cup {[SchemaBase EXCEPT !.operation = PStr("add_property"),
                             !.collection_name = PStr("Docs"), !.property = q] :
            q \in {PAbsent, PStr(PropText), PStr(PropNoType), PStr("[1]"), PInt(1)}}
    \cup {[SchemaBase EXCEPT !.operation = PStr("update_config"),
                             !.collection_name = PStr("Docs"), !.config = q] :
            q \in {PAbsent, PStr("{}"), PStr("[1]")}}

SchemaValidate(p) ==
    LET Checked(op, operation, cn, vz) ==
            IF ~(op.ok /\ cn.ok /\ vz.ok) THEN Throw("AttributeError")
            ELSE IF operation \notin SchemaOps
                 THEN Yield(create_error_response("Unknown operation"))
            ELSE IF operation # "list_collections" /\ cn.v = ""
                 THEN Yield(create_error_response(
                                "Collection name is required for this operation"))
            ELSE IF cn.v # "" /\ ~validate_collection_name(cn.v)
                 THEN Yield(create_error_response("Invalid collection name"))
            ELSE IF vz.v # "" /\ vz.v \notin {"none", "self", "self_provided"}
                              /\ vz.v \notin ALLOWED_VECTORIZERS
                 THEN Yield(create_error_response("Unsupported vectorizer"))
            ELSE Proceed([operation |-> operation, collection_name |-> cn.v])
        Stripped(op) ==
            Checked(op, Lower(op.v), StripParam(p.collection_name),
                    StripParam(p.vectorizer))
    IN  Stripped(StripParam(p.operation))

\* a client method that answers True or False, and what the tool yields for it
SchemaFlag(r, method, done, failed) ==
    IF Truthy(r.res.v)
    THEN Yielded(r, method, create_success_response(PNone, done))
    ELSE Yielded(r, method, create_error_response(failed))

SchemaCreate(st, e, a, p) ==
    LET One(props) == IF props.t = "dict" THEN PList(<<props>>) ELSE props
        Parsed(props) ==
            IF ~validate_properties(props)
            THEN Yielded(Same(st), "", create_error_response("Invalid properties"))
            ELSE SchemaFlag(create_collection(st, e, a.collection_name),
                            "create_collection", "Collection created successfully",
                            "Failed to create collection")
    IN  IF ~Truthy(Get(p.properties))
        THEN Yielded(Same(st), "", create_error_response(
                 "Properties are required for collection creation"))
        ELSE Parsed(One(safe_json_parse(Get(p.properties), PNone)))

SchemaAddProperty(st, e, a, p) ==
    LET Parsed(prop) ==
            IF prop.t # "dict" \/ ~DictHas(prop, "name") \/ ~DictHas(prop, "data_type")
            THEN Yielded(Same(st), "", create_error_response("Invalid property format"))
            ELSE SchemaFlag(add_property(st, e, a.collection_name, prop),
                            "add_property", "Property added", "Failed to add property")
        Stripped(prop_str) ==
            IF ~prop_str.ok THEN Thrown([st |-> st, res |-> Raise("AttributeError")], "")
            ELSE IF prop_str.v = ""
            THEN Yielded(Same(st), "", create_error_response(
                     "Property definition is required for add_property operation"))
            ELSE Parsed(safe_json_parse(PStr(prop_str.v), PNone))
    IN  Stripped(StripParam(p.property))

SchemaUpdateConfig(st, e, a, p) ==
    LET Parsed(cfg) ==
            IF cfg.t # "dict"
            THEN Yielded(Same(st), "", create_error_response("Invalid config format"))
            ELSE SchemaFlag(update_collection_config(st, e, a.collection_name, cfg),
                            "update_collection_config", "Configuration updated",
                            "Failed to update configuration")
        Stripped(cfg_str) ==
            IF ~cfg_str.ok THEN Thrown([st |-> st, res |-> Raise("AttributeError")], "")
            ELSE IF cfg_str.v = ""
            THEN Yielded(Same(st), "", create_error_response(
                     "Config updates are required for update_config operation"))
            ELSE Parsed(safe_json_parse(PStr(cfg_str.v), PNone))
    IN  Stripped(StripParam(p.config))

SchemaBody(st, e, a, p) ==
    LET Collections(r) ==
            Yielded(r, "list_collections", create_success_response(
                PDict([collections |-> r.res.v, count |-> PInt(Len(r.res.v.v))]),
                "Found collections"))
        Exists(r) ==
            Yielded(r, "collection_exists", create_success_response(
                PDict([exists |-> r.res.v]), "Collection exists"))
    IN  CASE a.operation = "list_collections" -> Collections(list_collections(st, e))
          [] a.operation = "create_collection" -> SchemaCreate(st, e, a, p)
          [] a.operation = "delete_collection" ->
                SchemaFlag(delete_collection(st, e, a.collection_name),
                           "delete_collection", "Collection deleted successfully",
                           "Failed to delete collection")
          [] a.operation = "get_schema" ->
                SchemaFlag(get_collection_schema(st, e, a.collection_name),
                           "get_collection_schema", "Schema retrieved",
                           "Failed to get schema")
          [] a.operation = "get_stats" ->
                SchemaFlag(get_collection_stats(st, e, a.collection_name),
                           "get_collection_stats", "Statistics retrieved",
                           "Failed to get stats")
          [] a.operation = "exists" -> Exists(collection_exists(st, e, a.collection_name))
          [] a.operation = "add_property" -> SchemaAddProperty(st, e, a, p)
          [] OTHER -> SchemaUpdateConfig(st, e, a, p)

InvokeSchema ==
    /\ pc = "idle"
    /\ \E p \in SchemaParams : Begin("schema", p, SchemaValidate(p))

SchemaManagement ==
    /\ pc = "body" /\ tool = "schema"
    /\ \E e \in CallEnvs : Body("schema", e, SchemaBody(St, e, args, params))

-----------------------------------------------------------------------------
(* tools/tenant_management.py *)

TenantOps == {"list_tenants", "add_tenants", "delete_tenants"}

TenantParams ==
    [operation : {PAbsent, PStr("list_tenants"), PStr("add_tenants"),
                  PStr("delete_tenants"), PStr("bogus")},
     collection_name : CollectionValues,
     tenants : {PAbsent, PStr("[\"a\",\"b\",\"c\"]"), PStr("{}"), PInt(1)}]

TenantValidate(p) ==
    LET Checked(op, operation, cn, ts) ==
            IF ~(op.ok /\ cn.ok /\ ts.ok) THEN Throw("AttributeError")
            ELSE IF operation \notin TenantOps
                 THEN Yield(create_error_response("Unknown operation"))
            ELSE IF cn.v = ""
                 THEN Yield(create_error_response(
                                "Collection name is required for tenant operations"))
            ELSE Proceed([operation |-> operation, collection_name |-> cn.v,
                          tenants_str |-> ts.v])
        Stripped(op) ==
            Checked(op, Lower(op.v), StripParam(p.collection_name),
                    StripParam(p.tenants))
    IN  Stripped(StripParam(p.operation))

TenantBody(st, e, a) ==
    LET Parsed(tenants) ==
            IF tenants.t # "list"
            THEN Yielded(Same(st), "", create_error_response("Invalid tenants format"))
            ELSE Thrown(missing_method(st), a.operation)
    IN  IF a.operation = "list_tenants" THEN Thrown(missing_method(st), "list_tenants")
        ELSE IF a.tenants_str = ""
        THEN Yielded(Same(st), "", create_error_response("Tenant list is required"))
        ELSE Parsed(safe_json_parse(PStr(a.tenants_str), PNone))

InvokeTenant ==
    /\ pc = "idle"
    /\ \E p \in TenantParams : Begin("tenant", p, TenantValidate(p))

TenantManagement ==
    /\ pc = "body" /\ tool = "tenant"
    /\ \E e \in {EnvOK} : Body("tenant", e, TenantBody(St, e, args))

-----------------------------------------------------------------------------
(* tools/query_agent.py *)

\* sub in s (substring test)
Contains(s, sub) ==
    \E i \in 1..(Len(s) - Len(sub) + 1) : SubSeq(s, i, i + Len(sub) - 1) = sub

AgentParams ==
    [query : {PAbsent, PNone, PStr("Find x"), PStr("show"), PStr("hello")},
     collection_name : {PAbsent, PStr("Docs")},
     max_results : {PAbsent, PInt(0), PInt(100), PInt(101), PStr("50")},
     llm_provider : {PAbsent, PStr("other")},
     llm_model : {PAbsent},
     llm_api_key : {PAbsent, PStr("key")}]

AgentValidate(p) ==
    LET Checked(query, cn, provider, model, key, max_results) ==
            IF ~(query.ok /\ cn.ok /\ provider.ok /\ model.ok /\ key.ok)
            THEN Throw("AttributeError")
            ELSE IF query.v = "" THEN Yield(create_text_message("Error: Query is required"))
            ELSE IF ~validate_limit(max_results, 1000)
                 THEN Yield(create_text_message(
                                "Error: Max results must be between 1 and 100"))
            ELSE IF max_results.t = "str" THEN Throw("TypeError")
            ELSE IF max_results.v > 100
                 THEN Yield(create_text_message(
                                "Error: Max results must be between 1 and 100"))
            ELSE Proceed([query |-> query.v, collection_name |-> cn.v,
                          max_results |-> max_results, llm_provider |-> Lower(provider.v),
                          llm_api_key |-> key.v])
    IN  Checked(StripParamDefault(p.query, ""), StripParamDefault(p.collection_name, ""),
                StripParamDefault(p.llm_provider, "openai"),
                StripParamDefault(p.llm_model, "gpt-3.5-turbo"),
                StripParamDefault(p.llm_api_key, ""), GetDefault(p.max_results, PInt(10)))

Interpretation(operation, collection_name, search_type, search_query) ==
    PDict([operation |-> operation, collection_name |-> collection_name,
           search_type |-> search_type, search_query |-> search_query,
           filters |-> PNone, properties |-> PNone])

\* the mutant of _fallback_interpretation: the listing words are tried first
fallback_interpretation_list_first(query, collection_name) ==
    IF \E w \in {"list", "show", "get all"} : Contains(Lower(query), w)
    THEN Interpretation(PStr("list_collections"), PNone, PNone, PNone)
    ELSE Interpretation(PStr("search"),
                        PStr(IF collection_name # "" THEN collection_name
                             ELSE "Documents"),
                        PStr("hybrid"), PStr(query))

\* _fallback_interpretation: keywords of the lower-cased query
fallback_interpretation(query, collection_name) ==
    LET Search == Interpretation(PStr("search"),
                                 PStr(IF collection_name # "" THEN collection_name
                                      ELSE "Documents"),
                                 PStr("hybrid"), PStr(query))
        Words(query_lower) ==
            IF \E w \in {"search", "find", "look for", "query"} : Contains(query_lower, w)
            THEN Search
            ELSE IF \E w \in {"list", "show", "get all"} : Contains(query_lower, w)
            THEN Interpretation(PStr("list_collections"), PNone, PNone, PNone)
            ELSE Search
    IN  Words(Lower(query))

\* what the JSON object in the model's reply parses to
LlmReply(reply) ==
    CASE reply = "keyword" ->
            Interpretation(PStr("search"), PStr("Docs"), PStr("keyword"), PStr("x"))
      [] reply = "list" -> Interpretation(PStr("list_collections"), PNone, PNone, PNone)
      [] reply = "schema" -> Interpretation(PStr("get_schema"), PStr("Docs"), PNone, PNone)
      [] reply = "stats" -> Interpretation(PStr("get_stats"), PStr("Docs"), PNone, PNone)
      [] reply = "insert" -> Interpretation(PStr("insert"), PStr("Docs"), PNone, PNone)
      [] OTHER -> PDict(EmptyDict)

\* _interpret_query: [st, v]; every exception falls back to the keywords
interpret_query(st, e, query, collection_name, llm_provider) ==
    IF llm_provider \in {"openai", "anthropic"}
    THEN [st |-> Log(st, "llm.create", PStr(llm_provider)),
          v |-> IF e.llm = "raise" \/ e.reply = "text"
                THEN fallback_interpretation(query, collection_name)
                ELSE LlmReply(e.reply)]
    ELSE [st |-> st, v |-> fallback_interpretation(query, collection_name)]

ClassName(x) == IF x.t = "str" THEN x.v ELSE ""

\* the mutant of _execute_operation: the named collection is deleted
execute_operation_deletes(st, e, interpretation, max_results) ==
    delete_collection(st, e, ClassName(DictGet(interpretation, "collection_name")))

\* _execute_operation: [st, res]; every exception gives None
execute_operation(st, e, interpretation, max_results) ==
    LET operation == DictGet(interpretation, "operation")
        class_name == ClassName(DictGet(interpretation, "collection_name"))
        search_query == PyStr(DictGet(interpretation, "search_query"))
        Wrapped(r, key) ==
            [st |-> r.st,
             res |-> Ret(IF Truthy(r.res.v) THEN PDict([k \in {key} |-> r.res.v])
                         ELSE PNone)]
        Listed(r) == [st |-> r.st, res |-> Ret(PDict([collections |-> r.res.v]))]
    IN  CASE operation = PStr("search") ->
                IF DictGet(interpretation, "search_type") = PStr("keyword")
                THEN text_search(st, e, class_name, search_query, max_results,
                                 PNone, PNone)
                ELSE hybrid_search(st, e, class_name, search_query,
                                   PList(<<[t |-> "float", v |-> 0]>>), max_results,
                                   PNone, PNone)
          [] operation = PStr("list_collections") -> Listed(list_collections(st, e))
          [] operation = PStr("get_schema") ->
                Wrapped(get_collection_schema(st, e, class_name), "schema")
          [] operation = PStr("get_stats") ->
                Wrapped(get_collection_stats(st, e, class_name), "stats")
          [] OTHER -> [st |-> st,
                       res |-> Ret(PDict([message |-> PStr("not yet implemented")]))]

\* _generate_response: the sentence shown to the user
generate_response(interpretation, result) ==
    LET operation == DictGet(interpretation, "operation") IN
    CASE operation = PStr("search") /\ result.t = "list" ->
            IF Len(result.v) = 0 THEN "no matching documents" ELSE "found documents"
      [] operation = PStr("list_collections") ->
            IF ~Truthy(DictGet(result, "collections")) THEN "no collections"
            ELSE "found collections"
      [] operation = PStr("get_schema") -> "retrieved schema"
      [] operation = PStr("get_stats") -> "collection contains documents"
      [] OTHER -> "processed"

AgentBody(st, e, a) ==
    LET Executed(interpretation, x) ==
            IF x.res.v.t = "none"
            THEN Yielded(x, "execute_operation",
                         create_text_message("Error: Could not execute the operation"))
            ELSE Yielded(x, "execute_operation", create_success_response(
                     PDict([response |-> PStr(generate_response(interpretation, x.res.v)),
                            operation |-> DictGet(interpretation, "operation"),
                            collection |-> DictGet(interpretation, "collection_name"),
                            result_data |-> x.res.v]),
                     "Query processed successfully"))
        Interpreted(i) ==
            IF ~Truthy(i.v)
            THEN Yielded([st |-> i.st, res |-> Ret(PNone)], "interpret_query",
                         create_text_message("Error: Could not interpret the query"))
            ELSE Executed(i.v, execute_operation(i.st, e, i.v, a.max_results))
    IN  Interpreted(interpret_query(st, e, a.query, a.collection_name, a.llm_provider))

AgentEnvs ==
    {[e EXCEPT !.llm = l, !.reply = r] :
        e \in CallEnvs, l \in {"ok"},
        r \in {"text", "empty", "keyword", "list", "schema", "stats", "insert"}}
    \cup {[EnvOK EXCEPT !.llm = "raise"]}

InvokeAgent ==
    /\ pc = "idle"
    /\ \E p \in AgentParams : Begin("agent", p, AgentValidate(p))

QueryAgent ==
    /\ pc = "body" /\ tool = "agent"
    /\ \E e \in AgentEnvs : Body("agent", e, AgentBody(St, e, args))

-----------------------------------------------------------------------------
(* test/test_hybrid_search.py: the client wrapper called without a tool *)

\* Test 4 and Test 5: client.hybrid_search(query, query_vector=None); the script
\* disconnects in its finally block
TestHybridSearch ==
    /\ pc = "idle"
    /\ \E query \in {"q", ""}, e \in CallEnvs :
          LET Called(r) ==
                  /\ SetSt(r.st)
                  /\ lastres' = Res("hybrid_search", r)
                  /\ params' = [query |-> PStr(query), query_vector |-> PNone]
                  /\ env' = e
          IN  Called(hybrid_search(St, e, "Docs", query, PNone, PInt(5), PNone, PNone))
    /\ tool' = "test"
    /\ pc' = "finally"
    /\ UNCHANGED <<args, msgs, escaped>>
    /\ UNCHANGED ivars

-----------------------------------------------------------------------------
(* provider/weaviate_plugin.py *)

UrlValues ==
    {PAbsent, PNone, PStr("http://h"), PStr("https://h.io:80/p"), PStr("ftp://h"),
     PStr("http://"), PStr("http://h:x"), PStr("http://h\n"), PInt(5)}

KeyValues == {PAbsent, PStr(""), PStr("  "), PStr("k"), PInt(5)}

CredentialError(st) == [st |-> st, exc |-> "ToolProviderCredentialValidationError"]

\* the trial connection: weaviate.connect_to_local(...) and client.close()
TrialConnection(st, e) ==
    LET Opened(s1) ==
            IF e.sdk = "raise"
            THEN CredentialError([Log(s1, "close", PNone) EXCEPT !.closed = @ + 1])
            ELSE [st |-> [Log(s1, "close", PNone) EXCEPT !.closed = @ + 1], exc |-> ""]
    IN  IF e.connect = "raise" THEN CredentialError(Log(st, "connect_to_local", PNone))
        ELSE Opened([Log(st, "connect_to_local", PNone) EXCEPT !.opened = @ + 1])

\* _validate_credentials: [st, exc]; every exception is raised again as
\* ToolProviderCredentialValidationError
validate_credentials(st, e, url, api_key) ==
    LET Checked(u, k) ==
            IF ~u.ok \/ ~u.v THEN CredentialError(st)
            ELSE IF Truthy(api_key) /\ (~k.ok \/ ~k.v) THEN CredentialError(st)
            ELSE TrialConnection(st, e)
    IN  Checked(validate_weaviate_url(url), validate_api_key(api_key))

ProviderEnvs == {EnvOK, [EnvOK EXCEPT !.connect = "raise"], [EnvOK EXCEPT !.sdk = "raise"]}

ValidateCredentials ==
    /\ pc = "idle"
    /\ \E url \in UrlValues, api_key \in KeyValues, e \in ProviderEnvs :
          LET Validated(r) == SetSt(r.st) /\ escaped' = r.exc
          IN  /\ Validated(validate_credentials(St, e, GetDefault(url, PStr("")),
                                                GetDefault(api_key, PStr(""))))
              /\ params' = [url |-> url, api_key |-> api_key]
              /\ env' = e
    /\ tool' = "provider"
    /\ pc' = "done"
    /\ UNCHANGED <<args, msgs, lastres>>
    /\ UNCHANGED ivars

-----------------------------------------------------------------------------

-----------------------------------------------------------------------------
(* Two invocations in flight: utils/client.py, __init__ / connect / disconnect *)

MaxInvocations == 2
MaxConns == 3

Invocations == 1..MaxInvocations

\* the mutant of NewConnection: one connection shared by every client
NewConnectionShared(cs) == 1

\* weaviate.connect_to_custom / connect_to_weaviate_cloud build a new SDK client
NewConnection(cs) == Len(cs) + 1

\* WeaviateClient.connect on the field _client = c: [client, conns]
client_connect(c, cs, e) ==
    IF c # 0 THEN [client |-> c, conns |-> cs]
    ELSE IF e = "raise" THEN [client |-> 0, conns |-> cs]
    ELSE [client |-> NewConnection(cs), conns |-> Append(cs, "open")]

\* WeaviateClient.disconnect: close() on the own connection, then _client = None
client_disconnect(c, cs) ==
    [client |-> 0, conns |-> IF c # 0 THEN [cs EXCEPT ![c] = "closed"] ELSE cs]

\* client = WeaviateClient(url, api_key, timeout): _client is None
Construct(i) ==
    /\ ipc[i] = "idle"
    /\ ipc' = [ipc EXCEPT ![i] = "body"]
    /\ clients' = [clients EXCEPT ![i] = 0]
    /\ running' = i
    /\ UNCHANGED conns
    /\ UNCHANGED vars

\* one method of the client inside the try block; the last one leaves it
Method(i) ==
    /\ ipc[i] = "body"
    /\ clients[i] # 0 \/ Len(conns) < MaxConns
    /\ \E e \in {"ok", "raise", "notready"}, last \in BOOLEAN :
          LET Connected(r) ==
                  /\ clients' = [clients EXCEPT ![i] = r.client]
                  /\ conns' = r.conns
          IN  /\ Connected(client_connect(clients[i], conns, e))
              /\ ipc' = [ipc EXCEPT ![i] = IF last THEN "finally" ELSE "body"]
    /\ running' = i
    /\ UNCHANGED vars

\* finally: client.disconnect()
Disconnect(i) ==
    /\ ipc[i] = "finally"
    /\ LET Closed(r) ==
                /\ clients' = [clients EXCEPT ![i] = r.client]
                /\ conns' = r.conns
       IN  Closed(client_disconnect(clients[i], conns))
    /\ ipc' = [ipc EXCEPT ![i] = "done"]
    /\ running' = i
    /\ UNCHANGED vars

\* the generator of the invocation is exhausted
Exhaust(i) ==
    /\ ipc[i] = "done"
    /\ ipc' = [ipc EXCEPT ![i] = "idle"]
    /\ running' = i
    /\ UNCHANGED <<clients, conns>>
    /\ UNCHANGED vars

Constructs == \E i \in Invocations : Construct(i)
Methods == \E i \in Invocations : Method(i)
Disconnects == \E i \in Invocations : Disconnect(i)
Exhausts == \E i \in Invocations : Exhaust(i)

NextInterleaved ==
    \/ Constructs
    \/ Methods
    \/ Disconnects
    \/ Exhausts

Init ==
    /\ pc = "idle"
    /\ tool = "none"
    /\ params = NoArgs
    /\ args = NoArgs
    /\ msgs = <<>>
    /\ calls = <<>>
    /\ escaped = ""
    /\ wclient = "none"
    /\ opened = 0
    /\ closed = 0
    /\ lastres = NoRes
    /\ env = EnvOK
    /\ objects \in SUBSET {"u1"}
    /\ collections = {"Docs"}
    /\ ipc = [i \in Invocations |-> "idle"]
    /\ clients = [i \in Invocations |-> 0]
    /\ conns = <<>>
    /\ running = 0

Next ==
    \/ InvokeVector
    \/ VectorSearch
    \/ InvokeKeyword
    \/ KeywordSearch
    \/ InvokeHybrid
    \/ HybridSearch
    \/ InvokeData
    \/ DataManagement
    \/ InvokeGenerative
    \/ GenerativeSearch
    \/ InvokeSchema
    \/ SchemaManagement
    \/ InvokeTenant
    \/ TenantManagement
    \/ InvokeAgent
    \/ QueryAgent
    \/ TestHybridSearch
    \/ ValidateCredentials
    \/ Finally
    \/ Return

Spec == Init /\ [][Next]_vars

\* the same program with two invocations whose steps interleave
SpecInterleaved == Init /\ [][NextInterleaved]_<<vars, ivars>>

-----------------------------------------------------------------------------
(* The functions of utils/ and the methods of the client called on their own *)

\* a call of the function name on input, outside any invocation: what it
\* returned or raised
Applied(name, input, kind, v) ==
    /\ tool' = "function"
    /\ params' = [input |-> input]
    /\ lastres' = [method |-> name, kind |-> kind, v |-> v]
    /\ UNCHANGED <<pc, args, msgs, calls, escaped, wclient, opened, closed, env,
                   objects, collections>>
    /\ UNCHANGED ivars

\* the mapping with the keys whose value is given
FilterOf(op, path, operands) ==
    LET all == [operator |-> op, path |-> path, operands |-> operands]
        keys == {k \in DOMAIN all : all[k].t # "absent"}
    IN  PDict([k \in keys |-> all[k]])

OperatorInputs ==
    {PAbsent, PNone, PInt(1), PStr("And"), PStr("Or"), PStr("Not"), PStr("Equal"),
     PStr("and"), PList(<<PStr("And")>>), PDict(EmptyDict), PSet}

WhereFilterInputs ==
    {PNone, PInt(1), PStr(FilterLeaf), PList(<<>>)}
    \cup {FilterOf(op, path, operands) :
            op \in OperatorInputs,
            path \in {PAbsent, PList(<<PStr("p")>>)},
            operands \in {PAbsent, PNone, PList(<<PInt(1)>>), PSet}}

ValidateWhereFilter ==
    /\ pc = "idle"
    /\ \E w \in WhereFilterInputs :
          IF validate_where_filter_raises(w)
          THEN Applied("validate_where_filter", w, "raise", PNone)
          ELSE Applied("validate_where_filter", w, "ret", PBool(validate_where_filter(w)))

FallbackQueries ==
    {"", "hello", "Find x", "show", "LIST all", "Show me a query", "search the list",
     "get all", "Get All docs", "look for shows", "lis t", "forget allies"}

FallbackInterpretation ==
    /\ pc = "idle"
    /\ \E query \in FallbackQueries, collection_name \in {"", "Docs"} :
          Applied("fallback_interpretation",
                  [query |-> query, collection_name |-> collection_name], "ret",
                  fallback_interpretation(query, collection_name))

\* one WeaviateClient used directly: its cached connection and the database
\* stay from one call to the next, the calls and the counts are those of the
\* last call
OwnSt == [St EXCEPT !.calls = <<>>, !.opened = 0, !.closed = 0]

\* a call of the method name of that client in the environment e
ClientCalled(name, input, e, r) ==
    /\ tool' = "function"
    /\ params' = [input |-> input]
    /\ lastres' = Res(name, r)
    /\ env' = e
    /\ SetSt(r.st)
    /\ UNCHANGED <<pc, args, msgs, escaped>>
    /\ UNCHANGED ivars

ClassNames == {"Docs", "Other"}

DeleteCollection ==
    /\ pc = "idle"
    /\ \E class_name \in ClassNames, e \in CallEnvs :
          ClientCalled("delete_collection", PStr(class_name), e,
                 delete_collection(OwnSt, e, class_name))

\* isinstance(value, int): a bool is an int too
IsInt(value) == value.t \in {"int", "bool"}

\* the mutant of _value_field_for_python: the integer test comes first
value_field_int_first(value) ==
    IF IsInt(value) THEN "valueInt"
    ELSE IF value.t = "bool" THEN "valueBoolean"
    ELSE IF value.t = "float" THEN "valueNumber"
    ELSE "valueText"

\* _value_field_for_python
value_field_for_python(value) ==
    IF value.t = "bool" THEN "valueBoolean"
    ELSE IF IsInt(value) /\ value.t # "bool" THEN "valueInt"
    ELSE IF value.t = "float" THEN "valueNumber"
    ELSE "valueText"

\* _single_cond of build_where_filter
single_cond(k, v) ==
    PDict((value_field_for_python(v) :> v)
          @@ [path |-> PList(<<PStr(k)>>), operator |-> PStr("Equal")])

\* the keys a condition mapping may have, in the order they were put in
ConditionKeys == <<"status", "views">>

\* list(conditions.items()): the keys of the mapping in that order
Items(conditions) == SelectSeq(ConditionKeys, LAMBDA k : k \in DOMAIN conditions.v)

build_where_filter(conditions) ==
    LET Built(items) ==
            IF Len(items) = 1 THEN single_cond(items[1], conditions.v[items[1]])
            ELSE PDict([operator |-> PStr("And"),
                        operands |-> PList([i \in 1..Len(items) |->
                                         single_cond(items[i], conditions.v[items[i]])])])
    IN  IF ~Truthy(conditions) THEN PDict(EmptyDict) ELSE Built(Items(conditions))

ConditionValues ==
    {PNone, PStr("published"), PInt(10), PBool(TRUE), [t |-> "float", v |-> 15],
     PList(<<PInt(1)>>), PDict([a |-> PInt(1)])}

ConditionInputs ==
    {PDict(d) : d \in UNION {[K -> ConditionValues] : K \in SUBSET {"status", "views"}}}

BuildWhereFilter ==
    /\ pc = "idle"
    /\ \E conditions \in ConditionInputs :
          Applied("build_where_filter", conditions, "ret", build_where_filter(conditions))

ClientConnect ==
    /\ pc = "idle"
    /\ \E e \in CallEnvs : ClientCalled("connect", PNone, e, connect(OwnSt, e))

ClientDisconnect ==
    /\ pc = "idle"
    /\ ClientCalled("disconnect", PNone, EnvOK, [st |-> disconnect(OwnSt), res |-> Ret(PNone)])

NextFunctions ==
    \/ ValidateWhereFilter
    \/ FallbackInterpretation
    \/ DeleteCollection
    \/ ClientConnect
    \/ ClientDisconnect
    \/ BuildWhereFilter

SpecFunctions == Init /\ [][NextFunctions]_<<vars, ivars>>

-----------------------------------------------------------------------------
(* Properties of the tools *)

ToolNames ==
    {"data", "schema", "tenant", "vector", "keyword", "hybrid", "generative", "agent"}

\* the invocation of a tool has run to completion
Completed == pc = "done" /\ tool \in ToolNames

\* the invocation built a WeaviateClient
Constructed == args # NoArgs

\* a message that reports an error: a JSON envelope with success = false, or
\* one of the texts the hybrid tool yields for a rejected input
IsErrorEnvelope(m) == m.kind = "json" /\ ~m.success
IsErrorMessage(m) == IsErrorEnvelope(m) \/ (m.kind = "text" /\ StartsWith(m.text, "Error"))

\* C1: every invocation of every tool, whatever the parameters and whatever
\* the database or the LLM does, ends having yielded a message to the host,
\* and no exception leaves _invoke
C1_MessageYielded ==
    (tool \in ToolNames /\ pc \in {"finally", "done"}) =>
        (Len(msgs) >= 1 /\ escaped = "")

\* a wrongly typed operation makes .strip() raise: the outer handler answers
C1_Witness ==
    /\ Completed
    /\ tool = "data"
    /\ params.operation = PInt(3)
    /\ msgs = <<create_error_response("Tool execution failed")>>
    /\ escaped = ""

\* C2: when an invocation that built a WeaviateClient has ended, the wrapper
\* holds no connection, every connection it opened has been closed, and the
\* close is the last call made through the client
C2_Disconnected ==
    (Completed /\ Constructed) =>
        /\ wclient = "none"
        /\ opened = closed
        /\ (opened > 0 => calls[Len(calls)].op = "close")

\* a delete by identifier whose database call raised: the exception path
C2_Witness ==
    /\ Completed
    /\ Constructed
    /\ tool = "data"
    /\ lastres.method = "delete_object"
    /\ lastres.kind = "raise"
    /\ opened = 1
    /\ closed = 1
    /\ wclient = "none"

FilterTools == {"vector", "keyword", "hybrid", "generative"}

\* the operation of the invocation accepts where_filter
TakesFilter ==
    \/ tool \in FilterTools
    \/ tool = "data" /\ params.operation \in {PStr("list_objects"), PStr("delete")}

\* the text is not the JSON text of an object
NotJsonObject(s) == LET Bad(r) == ~r.ok \/ r.v.t # "dict" IN Bad(json_loads(s))

\* one error message, and nothing reached the database
RejectedUnseen ==
    /\ Len(msgs) = 1
    /\ IsErrorMessage(msgs[1])
    /\ calls = <<>>
    /\ opened = 0

\* C3 as stated: a where_filter string that is not the JSON text of an object
\* yields an error message and no call reaches the database
C3_AnyMalformedFilterRejected ==
    (Completed /\ TakesFilter /\ params.where_filter.t = "str"
        /\ NotJsonObject(params.where_filter.v)) => RejectedUnseen

\* C3: a where_filter string that is not blank and is not the JSON text of an
\* object yields an error message, and no call reaches the database (no
\* connect, no query, no delete) during the invocation
C3_MalformedFilterRejected ==
    (Completed /\ TakesFilter /\ params.where_filter.t = "str"
        /\ Strip(params.where_filter.v) # ""
        /\ NotJsonObject(params.where_filter.v)) => RejectedUnseen

\* a delete whose where_filter is rejected after the client was built
C3_Witness ==
    /\ Completed
    /\ Constructed
    /\ tool = "data"
    /\ params.operation = PStr("delete")
    /\ params.where_filter = PStr("{bad")
    /\ msgs = <<create_error_response("Invalid where_filter format")>>
    /\ calls = <<>>

\* the operation of the invocation takes a limit
TakesLimit ==
    \/ tool \in FilterTools
    \/ tool = "data" /\ params.operation = PStr("list_objects")

LimitQueries == {"query.near_vector", "query.bm25", "query.hybrid", "query.fetch_objects"}

\* a query was sent to the database with this limit
Forwarded(limit) ==
    \E i \in 1..Len(calls) : calls[i].op \in LimitQueries /\ calls[i].a.limit = limit

LimitMessage(m) ==
    StartsWith(m.text, "Limit must") \/ StartsWith(m.text, "Error: Limit must")

\* C4: a limit of 0, of 1001 or a non-numeric string is answered with an error
\* and never forwarded to the database; a limit of 1000 is not refused
C4_LimitChecked ==
    (Completed /\ TakesLimit) =>
        /\ params.limit \in {PInt(0), PStr("1001"), PStr("abc")} =>
              /\ Len(msgs) = 1
              /\ IsErrorMessage(msgs[1])
              /\ ~Forwarded(params.limit)
        /\ params.limit = PInt(1000) => ~LimitMessage(msgs[1])

PropsQueries == LimitQueries \cup {"query.fetch_object_by_id"}

\* C5: return_properties given as "a,b,c" and as '["a","b","c"]' reaches the
\* database client as the list a, b, c
C5_PropertiesNormalized ==
    (Completed /\ tool \in FilterTools \cup {"data"}
        /\ params.return_properties \in {PStr(PropsCsv), PStr(PropsJson)}) =>
        \A i \in 1..Len(calls) :
            calls[i].op \in PropsQueries => calls[i].a.props = PList(<<"a", "b", "c">>)

\* an insert of one JSON object is about to run
InsertsOne ==
    /\ pc = "body"
    /\ tool = "data"
    /\ args.operation = "insert"
    /\ params.object_data \in {PStr(ObjWithId), PStr(ObjRaw)}

\* the same parameters with object_data as the one-element array [O]
AsArray(p) == [p EXCEPT !.object_data = PStr("[" \o @.v \o "]")]

\* C6: an insert of the JSON object O, in single and in batch mode, makes the
\* database calls, leaves the objects and yields the message that the insert
\* of the array [O] makes, leaves and yields from the same state
C6_ObjectAsArray ==
    [][InsertsOne =>
        LET Agree(b) ==
                /\ calls' = b.st.calls
                /\ objects' = b.st.objects
                /\ msgs' = Append(msgs, IF b.out = "yield" THEN b.msg
                                        ELSE InnerExcept("data", b.exc))
        IN  Agree(DataBody(St, env', DataValidate(AsArray(params)).a,
                           AsArray(params)))]_vars

\* a single-mode insert of one object that was stored
C6_Witness ==
    /\ Completed
    /\ tool = "data"
    /\ params.operation = PStr("insert")
    /\ params.object_data = PStr(ObjWithId)
    /\ lastres.method = "insert_objects"
    /\ msgs[1].success
    /\ "u1" \in objects
    /\ \E i \in 1..Len(calls) : calls[i].op = "data.insert"

UpdateMethods == {"update_object", "replace_object", "update_vector"}

\* C7: an update of an identifier that is not in the collection, in each
\* mode, makes the client method return False and the tool yield an error
\* envelope; nothing is raised by the method or by the tool
C7_UpdateOfMissingObject ==
    (tool = "data" /\ pc \in {"finally", "done"} /\ lastres.method \in UpdateMethods
        /\ args.object_uuid \notin objects) =>
        /\ lastres.kind = "ret"
        /\ lastres.v = PBool(FALSE)
        /\ Len(msgs) = 1
        /\ IsErrorEnvelope(msgs[1])
        /\ escaped = ""

\* a merge update of u1, which is not stored, with the database at work
C7_Witness ==
    /\ Completed
    /\ tool = "data"
    /\ lastres.method = "update_object"
    /\ args.object_uuid = "u1"
    /\ "u1" \notin objects
    /\ env = EnvOK
    /\ \E i \in 1..Len(calls) : calls[i].op = "data.update"
    /\ msgs = <<create_error_response("Failed to update object")>>

\* the parameter is missing, null or a blank string
Blank(x) == x.t \in {"absent", "none"} \/ (x.t = "str" /\ Strip(x.v) = "")

\* C8: the hybrid search tool, given a blank query and no query_vector,
\* yields one error message and makes no database call, whatever the other
\* parameters are
C8_HybridNeedsQuery ==
    (Completed /\ tool = "hybrid" /\ Blank(params.query) /\ Blank(params.query_vector)) =>
        /\ RejectedUnseen
        /\ ~Constructed
        /\ params.collection_name = PStr("Docs") =>
              msgs = <<create_text_message(
                          "Error: Either query text or query vector is required")>>

\* a whitespace-only query with every other parameter acceptable
C8_Witness ==
    /\ Completed
    /\ tool = "hybrid"
    /\ params.query = PStr(" ")
    /\ params.query_vector = PAbsent
    /\ params.collection_name = PStr("Docs")
    /\ params.alpha = PAbsent
    /\ params.limit = PAbsent
    /\ params.where_filter = PStr(FilterLeaf)
    /\ msgs = <<create_text_message(
                   "Error: Either query text or query vector is required")>>

\* C9: WeaviateClient.hybrid_search called with an empty query and no query
\* vector raises instead of returning a list
C9_EmptyHybridQueryRaises ==
    (tool = "test" /\ pc = "finally" /\ params.query = PStr("")) => lastres.kind = "raise"

\* the URL is http(s)://host[:port][/path]
UrlPattern(u) ==
    /\ u.t = "str"
    /\ UrlMatches(u.v)
    /\ \A i \in 1..Len(u.v) : Char(u.v, i) # "\n"

\* no API key is given, or the one given is not blank
KeyAcceptable(k) == k.t = "absent" \/ (k.t = "str" /\ (k.v = "" \/ Strip(k.v) # ""))

\* C10: credential validation ends without error only for a URL of the form
\* http(s)://host[:port][/path], an API key that is not blank if given, and a
\* trial connection opened and then closed; otherwise it raises
\* ToolProviderCredentialValidationError, and it opens no trial connection
\* when the URL or the key is invalid
C10_CredentialsValidated ==
    (pc = "done" /\ tool = "provider") =>
        /\ escaped \in {"", "ToolProviderCredentialValidationError"}
        /\ escaped = "" =>
              /\ UrlPattern(params.url)
              /\ KeyAcceptable(params.api_key)
              /\ calls = <<Call("connect_to_local", PNone), Call("close", PNone)>>
              /\ opened = 1
              /\ closed = 1
        /\ ~(UrlPattern(params.url) /\ KeyAcceptable(params.api_key)) =>
              /\ escaped = "ToolProviderCredentialValidationError"
              /\ calls = <<>>
              /\ opened = 0

\* the operation methods of WeaviateClient
ClientMethods ==
    {"list_collections", "get_collection_schema", "create_collection",
     "delete_collection", "get_collection_stats", "collection_exists",
     "add_property", "update_collection_config", "insert_objects",
     "insert_objects_batch", "update_object", "replace_object", "update_vector",
     "delete_object", "get_object", "list_objects", "delete_by_filter",
     "vector_search", "hybrid_search", "text_search"}

\* C11: every operation method of WeaviateClient returns a value (an empty
\* result, None, False or a failure mapping) whatever connect() or the SDK
\* call raises; no exception reaches the caller of the method
C11_MethodsNeverRaise ==
    lastres.method \in ClientMethods => lastres.kind = "ret"

\* the client methods behind the non-generative operations that only read,
\* batch-insert, delete by filter or search
QuietMethods ==
    {"list_collections", "collection_exists", "get_object", "list_objects",
     "insert_objects_batch", "delete_by_filter", "vector_search", "text_search",
     "hybrid_search"}

\* the database could not be reached, or the one call of the method failed
DatabaseFailed ==
    \/ env.connect # "ok"
    \/ env.sdk = "raise" /\ lastres.method # "insert_objects_batch"

\* C12: when the database is unreachable or the database call fails, every
\* non-generative operation (list_collections, exists, get, list_objects, batch
\* insert, delete by filter, vector, keyword and hybrid search) yields an error
\* envelope, never a success envelope
C12_DatabaseFailureIsError ==
    (/\ Completed
     /\ tool \in {"data", "schema", "vector", "keyword", "hybrid"}
     /\ lastres.method \in QuietMethods
     /\ DatabaseFailed) =>
        \A i \in 1..Len(msgs) : IsErrorEnvelope(msgs[i])

\* C13: every message a tool yields, for a result or for an error, is a JSON
\* envelope carrying a boolean success field
C13_UniformEnvelope ==
    tool \in ToolNames =>
        \A i \in 1..Len(msgs) : msgs[i].kind = "json" /\ msgs[i].success \in BOOLEAN

\* C14: in the generative tool, when retrieval found a document with usable
\* text and the LLM call raises, the one message is a success envelope with
\* the results, the context passages and answer = null, and the invocation
\* ends with the connection closed
C14_GenerationFailureDegrades ==
    (/\ tool = "generative"
     /\ pc \in {"finally", "done"}
     /\ lastres.method = "generate"
     /\ lastres.kind = "raise") =>
        /\ Len(msgs) = 1
        /\ msgs[1].kind = "json"
        /\ msgs[1].success
        /\ msgs[1].data.v.answer = PNone
        /\ Len(msgs[1].data.v.results.v) >= 1
        /\ Len(msgs[1].data.v.context.v) >= 1
        /\ escaped = ""
        /\ (pc = "done" => wclient = "none" /\ opened = 1 /\ closed = 1)

\* the LLM raised after a retrieval that found text; the invocation is over
C14_Witness ==
    /\ Completed
    /\ tool = "generative"
    /\ env.llm = "raise"
    /\ lastres.method = "generate"
    /\ lastres.kind = "raise"
    /\ msgs[1].text = "Retrieved documents; generation failed"
    /\ closed = 1

\* C15: when the query agent is invoked without an LLM API key, no LLM API
\* call is attempted and the interpretation is the one of the keyword rules
C15_NoKeyNoLlmCall ==
    (/\ tool = "agent"
     /\ pc \in {"finally", "done"}
     /\ Constructed
     /\ args.llm_api_key = "") =>
        /\ \A i \in 1..Len(calls) : calls[i].op # "llm.create"
        /\ \A i \in 1..Len(msgs) :
              msgs[i].kind = "json" =>
                  msgs[i].data.v.operation =
                      DictGet(fallback_interpretation(args.query, args.collection_name),
                              "operation")

\* C16: list_tenants, add_tenants and delete_tenants, given a collection name
\* (and a JSON array of tenants for add and delete) and a database that
\* answers, are carried out by a method of the client wrapper and yield a
\* success envelope
C16_TenantOperationsSucceed ==
    (/\ tool = "tenant"
     /\ Completed
     /\ Constructed
     /\ env = EnvOK
     /\ \/ args.operation = "list_tenants"
        \/ safe_json_parse(PStr(args.tenants_str), PNone).t = "list") =>
        /\ lastres.kind = "ret"
        /\ Len(msgs) = 1
        /\ msgs[1].kind = "json"
        /\ msgs[1].success

\* C17: two invocations whose steps interleave each use their own client and
\* their own connection: a connection a client holds is held by it alone and
\* is open, and a step of one invocation changes neither the client of
\* the other nor the state of the connection the other holds
C17_InvocationsIsolated ==
    [][\A j \in Invocations :
          /\ clients'[j] # 0 =>
                /\ conns'[clients'[j]] = "open"
                /\ \A i \in Invocations \ {j} : clients'[i] # clients'[j]
          /\ running' # j =>
                /\ clients'[j] = clients[j]
                /\ ipc'[j] = ipc[j]
                /\ clients[j] # 0 => conns'[clients[j]] = conns[clients[j]]]_ivars

\* one invocation has disconnected while the other still holds its connection
C17_Witness ==
    /\ ipc[1] = "done"
    /\ running = 1
    /\ ipc[2] = "body"
    /\ clients[2] # 0
    /\ conns[clients[2]] = "open"
    /\ \E c \in 1..Len(conns) : conns[c] = "closed"

QueryOps == {"query.near_vector", "query.hybrid", "query.bm25", "query.fetch_objects"}

\* the predicate FilterLeaf describes: property p, operator Equal, value 1
LeafPredicate == [f |-> "equal", conds |-> {[field |-> "p", value |-> PInt(1)]}]

\* C18: a where filter in the structural form {"path": [p], "operator": op,
\* "value...": v}, given to list_objects or to a search, reaches the database
\* as the predicate on property p with operator op and value v
C18_StructuralFilterBuilt ==
    (/\ tool \in {"data", "vector", "keyword", "hybrid", "generative"}
     /\ params.where_filter = PStr(FilterLeaf)) =>
        \A i \in 1..Len(calls) :
            calls[i].op \in QueryOps => calls[i].a.filters = LeafPredicate

\* the positions of the LLM API calls in the log of the invocation
LlmCalls == {i \in 1..Len(calls) : calls[i].op = "llm.create"}

\* C19: one generative search calls the LLM at most once, only after the
\* retrieval has answered with at least one passage of non-empty text and only
\* with a non-empty llm_api_key; with no result, no text or no key there is
\* no LLM call
C19_OneLlmCallAfterRetrieval ==
    tool = "generative" =>
        /\ Cardinality(LlmCalls) <= 1
        /\ \A j \in LlmCalls :
              /\ Constructed
              /\ args.llm_api_key # ""
              /\ \E i \in 1..(j - 1) : calls[i].op \in QueryOps
              /\ Len(msgs) = 1
              /\ Len(msgs[1].data.v.results.v) >= 1
              /\ \E k \in 1..Len(msgs[1].data.v.context.v) :
                    Strip(msgs[1].data.v.context.v[k]) # ""

\* the LLM was called once and answered
C19_Witness ==
    /\ Completed
    /\ tool = "generative"
    /\ Cardinality(LlmCalls) = 1
    /\ msgs[1].text = "Retrieved documents and generated an answer"
    /\ msgs[1].data.v.answer = PStr("answer")

\* max_results as an integer between 1 and 100, from a number or a numeric string
MaxResultsInRange(x) ==
    x.t \in {"int", "str"} /\ PyInt(x).ok /\ 1 <= PyInt(x).v /\ PyInt(x).v <= 100

\* C20: the query agent accepts max_results exactly when its integer value
\* is between 1 and 100, as a number or as a numeric string; for every other
\* value it yields the error 'Max results must be between 1 and 100' and
\* calls neither the LLM nor the database
C20_MaxResultsChecked ==
    (/\ tool = "agent"
     /\ Completed
     /\ params.query.t = "str"
     /\ Strip(params.query.v) # "") =>
        IF MaxResultsInRange(GetDefault(params.max_results, PInt(10)))
        THEN Constructed
        ELSE /\ msgs = <<create_text_message(
                            "Error: Max results must be between 1 and 100")>>
             /\ calls = <<>>

\* the operator of a mapping is one of the given names
OperatorIs(w, names) ==
    DictHas(w, "operator") /\ w.v["operator"].t = "str" /\ w.v["operator"].v \in names

\* the shape the validator is said to accept
ShapeAccepted(w) ==
    /\ w.t = "dict"
    /\ JsonSerializable(w)
    /\ \/ OperatorIs(w, {"And", "Or", "Not"}) /\ DictHas(w, "operands")
       \/ /\ ~OperatorIs(w, {"And", "Or", "Not"})
          /\ DictHas(w, "path")
          /\ DictHas(w, "operator")

\* C21: validate_where_filter accepts a value exactly when it is a
\* JSON-serializable mapping and either its operator is And, Or or Not and it
\* has an operands key, or its operator is none of these and it has a path
\* key and an operator key
C21_WhereFilterShape ==
    lastres.method = "validate_where_filter" =>
        /\ lastres.kind = "ret"
        /\ lastres.v = PBool(ShapeAccepted(params.input))

\* the lower-cased query contains one of the words
HasWord(query, words) == \E w \in words : Contains(Lower(query), w)

\* C22: the rule-based fallback answers list_collections exactly when the
\* lower-cased query contains list, show or get all and none of search, find,
\* look for, query; otherwise a hybrid search for the whole query in the given
\* collection, or in Documents when none is given
C22_FallbackRules ==
    lastres.method = "fallback_interpretation" =>
        IF /\ HasWord(params.input.query, {"list", "show", "get all"})
           /\ ~HasWord(params.input.query, {"search", "find", "look for", "query"})
        THEN lastres.v = Interpretation(PStr("list_collections"), PNone, PNone, PNone)
        ELSE lastres.v =
                 Interpretation(PStr("search"),
                                PStr(IF params.input.collection_name = ""
                                     THEN "Documents"
                                     ELSE params.input.collection_name),
                                PStr("hybrid"), PStr(params.input.query))

\* a query with a listing word and a searching word: the search wins
C22_Witness ==
    /\ lastres.method = "fallback_interpretation"
    /\ params.input.query = "search the list"
    /\ params.input.collection_name = ""
    /\ DictGet(lastres.v, "operation") = PStr("search")
    /\ DictGet(lastres.v, "collection_name") = PStr("Documents")

DeletingOps == {"data.delete_many", "data.delete_by_id"}

\* C23: a data-management delete invoked with dry_run set issues no deleting
\* call (neither delete_many nor delete_by_id), whether the target is given by
\* where_filter or by object_uuid, and what it reports has deleted_count = 0
C23_DryRunDeletesNothing ==
    (/\ tool = "data"
     /\ Constructed
     /\ args.operation = "delete"
     /\ Truthy(GetDefault(params.dry_run, PBool(FALSE)))) =>
        /\ \A i \in 1..Len(calls) : calls[i].op \notin DeletingOps
        /\ \A i \in 1..Len(msgs) :
              msgs[i].success => DictGet(msgs[i].data, "deleted_count") = PInt(0)

\* the calls that read: connecting, closing, the LLM, searches, listing the
\* collections, reading a schema, counting
ReadingOps ==
    {"connect", "is_ready", "close", "llm.create", "query.hybrid", "query.bm25",
     "collections.list_all", "config.get", "aggregate.over_all"}

AgentOperations == {"search", "list_collections", "get_schema", "get_stats"}

\* C24: whatever the interpretation of the query, the query agent calls no
\* mutating method of the client: only search, list_collections, get_schema
\* and get_stats reach the database, and any other operation name gives the
\* 'not yet implemented' result without a database call
C24_AgentNeverMutates ==
    tool = "agent" =>
        /\ \A i \in 1..Len(calls) : calls[i].op \in ReadingOps
        /\ \A i \in 1..Len(msgs) :
              (/\ msgs[i].kind = "json"
               /\ msgs[i].success
               /\ \A o \in AgentOperations : msgs[i].data.v.operation # PStr(o)) =>
                  /\ msgs[i].data.v.result_data =
                         PDict([message |-> PStr("not yet implemented")])
                  /\ \A j \in 1..Len(calls) : calls[j].op = "llm.create"

\* the LLM asked for an insert: nothing was inserted
C24_Witness ==
    /\ Completed
    /\ tool = "agent"
    /\ env.reply = "insert"
    /\ Len(msgs) = 1
    /\ msgs[1].kind = "json"
    /\ msgs[1].data.v.operation = PStr("insert")
    /\ msgs[1].data.v.result_data = PDict([message |-> PStr("not yet implemented")])

DeleteCalled(cs) == \E i \in 1..Len(cs) : cs[i].op = "collections.delete"

\* C25: delete_collection is idempotent. On a collection that does not
\* exist it issues no delete call, leaves it absent and, the existence check
\* having answered, returns True; a True is only returned with the collection
\* absent, so a second deletion of the same collection succeeds like the first
C25_DeleteCollectionIdempotent ==
    [][lastres'.method = "delete_collection"
         => /\ lastres'.kind = "ret"
            /\ lastres'.v = PBool(TRUE) => params'.input.v \notin collections'
            /\ params'.input.v \notin collections =>
                  /\ ~DeleteCalled(calls')
                  /\ params'.input.v \notin collections'
                  /\ (env' = EnvOK => lastres'.v = PBool(TRUE))
            /\ (params'.input.v \in collections /\ env' = EnvOK) =>
                  /\ DeleteCalled(calls')
                  /\ lastres'.v = PBool(TRUE)]_<<vars, ivars>>

\* the collection deleted before is deleted again: success, no delete call
C25_Witness ==
    /\ lastres = [method |-> "delete_collection", kind |-> "ret", v |-> PBool(TRUE)]
    /\ params = [input |-> PStr("Docs")]
    /\ env = EnvOK
    /\ ~DeleteCalled(calls)
    /\ "Docs" \notin collections

\* C26: a tool invocation run to completion has yielded exactly one message,
\* after a failed validation, after a success and after an exception caught
\* by the inner or by the outer handler; before the body has answered, an
\* invocation that passed validation has yielded none
C26_ExactlyOneMessage ==
    tool \in ToolNames =>
        /\ pc \in {"finally", "done"} => Len(msgs) = 1
        /\ pc = "body" => Len(msgs) = 0

\* an exception of the database caught by the inner handler of the data tool
C26_Witness ==
    /\ Completed
    /\ tool = "data"
    /\ lastres.kind = "raise"
    /\ msgs = <<InnerExcept("data", lastres.v)>>

RequestObjects == Payload(safe_json_parse(PStr(args.object_data_str), PNone))

Increasing(xs) == \A i, j \in 1..Len(xs) : i < j => xs[i] < xs[j]

\* C29: insert_objects_batch returns, on its normal path and on its exception
\* path, a mapping with inserted_count + failed_count = total_processed = the
\* number of input objects; on the normal path the errors name one position
\* of the input per failed object, in input order, on the exception path the
\* single error stands for all of them
C29_BatchCountsAddUp ==
    (tool = "data" /\ lastres.method = "insert_objects_batch") =>
        /\ lastres.kind = "ret"
        /\ lastres.v.t = "dict"
        /\ lastres.v.v.inserted_count.v + lastres.v.v.failed_count.v
              = lastres.v.v.total_processed.v
        /\ lastres.v.v.total_processed.v = Len(RequestObjects)
        /\ lastres.v.v.inserted_count.v >= 0
        /\ lastres.v.v.failed_count.v >= 0
        /\ Increasing(lastres.v.v.errors.v)
        /\ \/ /\ Len(lastres.v.v.errors.v) = lastres.v.v.failed_count.v
              /\ \A i \in 1..Len(lastres.v.v.errors.v) :
                    lastres.v.v.errors.v[i] \in 0..(Len(RequestObjects) - 1)
           \/ /\ lastres.v.v.errors.v = <<0>>
              /\ lastres.v.v.inserted_count.v = 0

\* a batch of two objects of which one was added and one failed
C29_Witness ==
    /\ Completed
    /\ tool = "data"
    /\ lastres.method = "insert_objects_batch"
    /\ Len(RequestObjects) = 2
    /\ lastres.v.v.inserted_count = PInt(1)
    /\ lastres.v.v.failed_count = PInt(1)

\* the leaf build_where_filter gives for the condition k = v
IsLeafFor(f, k, v) ==
    /\ f.t = "dict"
    /\ DOMAIN f.v = {"path", "operator"}
                     \cup {IF v.t = "bool" THEN "valueBoolean"
                           ELSE IF v.t = "int" THEN "valueInt"
                           ELSE IF v.t = "float" THEN "valueNumber"
                           ELSE "valueText"}
    /\ f.v["path"] = PList(<<PStr(k)>>)
    /\ f.v["operator"] = PStr("Equal")
    /\ \A x \in DOMAIN f.v \ {"path", "operator"} : f.v[x] = v

\* C30: for a non-empty condition mapping with JSON-serializable values
\* build_where_filter gives a filter that validate_where_filter accepts: one
\* condition gives a leaf with path, operator Equal and the value under the
\* key of its type (a boolean under valueBoolean, not valueInt), several give
\* an And with one operand per condition; the empty mapping gives {} which
\* validate_where_filter rejects
C30_BuiltFilterAccepted ==
    lastres.method = "build_where_filter" =>
        /\ lastres.kind = "ret"
        /\ ~validate_where_filter_raises(lastres.v)
        /\ Cardinality(DOMAIN params.input.v) = 0 =>
              /\ lastres.v = PDict(EmptyDict)
              /\ ~validate_where_filter(lastres.v)
        /\ Cardinality(DOMAIN params.input.v) > 0 => validate_where_filter(lastres.v)
        /\ Cardinality(DOMAIN params.input.v) = 1 =>
              \A k \in DOMAIN params.input.v :
                  IsLeafFor(lastres.v, k, params.input.v[k])
        /\ Cardinality(DOMAIN params.input.v) > 1 =>
              /\ DOMAIN lastres.v.v = {"operator", "operands"}
              /\ lastres.v.v["operator"] = PStr("And")
              /\ Len(lastres.v.v["operands"].v) = Cardinality(DOMAIN params.input.v)
              /\ \A k \in DOMAIN params.input.v :
                    \E i \in 1..Len(lastres.v.v["operands"].v) :
                        IsLeafFor(lastres.v.v["operands"].v[i], k, params.input.v[k])

\* two conditions, one of them a boolean: an And of two leaves
C30_Witness ==
    /\ lastres.method = "build_where_filter"
    /\ params.input = PDict([status |-> PStr("published"), views |-> PBool(TRUE)])
    /\ lastres.v.v["operator"] = PStr("And")
    /\ Len(lastres.v.v["operands"].v) = 2
    /\ validate_where_filter(lastres.v)

====
